---- MODULE Spec2Model ----
(***************************************************************************)
(* Model of utils/formatters.py (formatting and parsing utilities of the   *)
(* Sistema Integrado).  Every function of the module is pure: a call is    *)
(* modelled as one step from pc = "call", with the arguments in arg, to    *)
(* pc = "done", with the outcome in ret.  An outcome is a record whose     *)
(* field kind says whether the call returned ("float", "str", "date",      *)
(* "None") or raised ("raise", with the exception's name in exc).          *)
(*                                                                         *)
(* Text is a sequence of one-character strings, so that the code's         *)
(* replace / split / strip / regular-expression steps are modelled         *)
(* character by character.  Str turns such a sequence into a TLA+ string   *)
(* for comparison with the literals of the docstrings.                     *)
(*                                                                         *)
(* A Python float is modelled by the decimal number its repr() prints:     *)
(* [neg, coef, exp] with coef a digit sequence without leading or trailing *)
(* zeros (<<0>> for zero) and value coef * 10^exp.  Binary representation  *)
(* error below the 15th significant digit is not modelled.                 *)
(*                                                                         *)
(* locale is the LC_TIME setting of the process, which no call changes and *)
(* only datetime.strptime reads (month names of %B and %b).                *)
(*                                                                         *)
(* The dataset editor of apps/administracion.py is modelled at the end of  *)
(* the module, as the state machine of its button handlers.                *)
(***************************************************************************)
EXTENDS Integers, Sequences, FiniteSets, TLC

VARIABLES pc, arg, ret, note, locale, session_state, csv, dataset_sel

vars == <<pc, arg, ret, note, locale, session_state, csv, dataset_sel>>

\* the state of the administration page (apps/administracion.py): Streamlit's
\* st.session_state, the contents of the dataset files and the dataset chosen
\* in the selectbox.  The functions of utils/formatters.py neither read nor
\* write it: in their specifications it is absent (NoPage) and stays so.
page == <<session_state, csv, dataset_sel>>

NoPage == session_state = <<>> /\ csv = <<>> /\ dataset_sel = ""

\* note records where an argument came from (the value a text was built
\* from, the value whose rendering is parsed back); the code never reads it
NoNote == [kind |-> "none"]

NoRet == [kind |-> "pending"]

Raise(e) == [kind |-> "raise", exc |-> e]

\* LC_TIME settings of the host process: the default "C" locale and the
\* Spanish (Argentina) one
Locales == {"C", "es_AR"}

(***************************************************************************)
(* Text and digit helpers                                                  *)
(***************************************************************************)
DigitChars == <<"0", "1", "2", "3", "4", "5", "6", "7", "8", "9">>

DigitSet == {DigitChars[i] : i \in 1..10}

IsDigit(c) == c \in DigitSet

DigitVal(c) == CHOOSE d \in 0..9 : DigitChars[d + 1] = c

DigitChar(d) == DigitChars[d + 1]

RECURSIVE Str(_)
Str(cs) == IF cs = <<>> THEN "" ELSE Head(cs) \o Str(Tail(cs))

RECURSIVE Pow10(_)
Pow10(k) == IF k <= 0 THEN 1 ELSE 10 * Pow10(k - 1)

RECURSIVE Zeros(_)
Zeros(k) == IF k <= 0 THEN <<>> ELSE <<0>> \o Zeros(k - 1)

\* the digits of a natural number, most significant first (str(int))
RECURSIVE NatDigits(_)
NatDigits(n) == IF n < 10 THEN <<n>> ELSE NatDigits(n \div 10) \o <<n % 10>>

\* int(digit string)
RECURSIVE DigitsNat(_)
DigitsNat(ds) ==
    IF ds = <<>> THEN 0 ELSE DigitsNat(SubSeq(ds, 1, Len(ds) - 1)) * 10 + ds[Len(ds)]

DigitsText(ds) == [i \in 1..Len(ds) |-> DigitChar(ds[i])]

TextDigits(cs) == [i \in 1..Len(cs) |-> DigitVal(cs[i])]

AllDigits(cs) == \A i \in 1..Len(cs) : IsDigit(cs[i])

RECURSIVE StripLeadingZeros(_)
StripLeadingZeros(ds) ==
    IF Len(ds) > 1 /\ ds[1] = 0 THEN StripLeadingZeros(Tail(ds)) ELSE ds

\* index of the first occurrence of character c in cs, 0 when absent
RECURSIVE FindFrom(_, _, _)
FindFrom(cs, c, i) ==
    IF i > Len(cs) THEN 0 ELSE IF cs[i] = c THEN i ELSE FindFrom(cs, c, i + 1)

Find(cs, c) == FindFrom(cs, c, 1)

Contains(cs, c) == \E i \in 1..Len(cs) : cs[i] = c

\* str.replace(old, new) for a one-character old and a text new (possibly empty)
RECURSIVE Replace(_, _, _)
Replace(cs, old, new) ==
    IF cs = <<>> THEN <<>>
    ELSE (IF Head(cs) = old THEN new ELSE <<Head(cs)>>) \o Replace(Tail(cs), old, new)

(***************************************************************************)
(* Python floats and their repr                                            *)
(***************************************************************************)
\* the float with magnitude digits ds * 10^e: leading and trailing zeros
\* of the coefficient removed (a float carries no trailing zeros)
RECURSIVE NormCoef(_, _)
NormCoef(ds, e) ==
    IF Len(ds) > 1 /\ ds[Len(ds)] = 0
    THEN NormCoef(SubSeq(ds, 1, Len(ds) - 1), e + 1)
    ELSE <<ds, e>>

MkFloat(neg, ds, e) ==
    LET s == StripLeadingZeros(ds)
        n == NormCoef(s, e)
    IN  IF s = <<0>> THEN [kind |-> "float", neg |-> neg, coef |-> <<0>>, exp |-> 0]
        ELSE [kind |-> "float", neg |-> neg, coef |-> n[1], exp |-> n[2]]

IsZero(x) == x.coef = <<0>>

\* Python's ==  on two floats: -0.0 == 0.0
FloatEq(x, y) ==
    IF IsZero(x) \/ IsZero(y) THEN IsZero(x) /\ IsZero(y)
    ELSE x.neg = y.neg /\ x.coef = y.coef /\ x.exp = y.exp

\* float.__repr__: shortest digits, fixed notation when -4 <= exponent < 16,
\* otherwise d.ddde+XX with at least two exponent digits
float_repr(x) ==
    LET n     == Len(x.coef)
        decpt == n + x.exp
        sign  == IF x.neg THEN <<"-">> ELSE <<>>
        ds    == DigitsText(x.coef)
        e10   == decpt - 1
        ae    == IF e10 < 0 THEN -e10 ELSE e10
        et    == IF ae < 10 THEN <<"0">> \o DigitsText(NatDigits(ae))
                 ELSE DigitsText(NatDigits(ae))
    IN  IF IsZero(x) THEN sign \o <<"0", ".", "0">>
        ELSE IF decpt > 16 \/ decpt < -3
        THEN sign \o <<ds[1]>>
             \o (IF n > 1 THEN <<".">> \o SubSeq(ds, 2, n) ELSE <<>>)
             \o <<"e", IF e10 < 0 THEN "-" ELSE "+">> \o et
        ELSE IF x.exp >= 0
        THEN sign \o ds \o DigitsText(Zeros(x.exp)) \o <<".", "0">>
        ELSE IF decpt <= 0
        THEN sign \o <<"0", ".">> \o DigitsText(Zeros(-decpt)) \o ds
        ELSE sign \o SubSeq(ds, 1, decpt) \o <<".">> \o SubSeq(ds, decpt + 1, n)

(***************************************************************************)
(* decimal.Decimal: [sign, int (digit sequence), exp], context precision   *)
(***************************************************************************)
DecimalPrec == 28

\* Decimal(text) for the numeric-string grammar
\*   [sign] (digits [. [digits]] | . digits) [e [sign] digits]
\* anything else raises InvalidOperation (ConversionSyntax)
ParseDecimal(cs) ==
    LET neg    == cs # <<>> /\ cs[1] = "-"
        signed == cs # <<>> /\ cs[1] \in {"-", "+"}
        body   == IF signed THEN Tail(cs) ELSE cs
        epos   == Find(body, "e")
        mant   == IF epos = 0 THEN body ELSE SubSeq(body, 1, epos - 1)
        etxt   == IF epos = 0 THEN <<>> ELSE SubSeq(body, epos + 1, Len(body))
        eneg   == etxt # <<>> /\ etxt[1] = "-"
        edig   == IF etxt # <<>> /\ etxt[1] \in {"-", "+"} THEN Tail(etxt) ELSE etxt
        dot    == Find(mant, ".")
        ip     == IF dot = 0 THEN mant ELSE SubSeq(mant, 1, dot - 1)
        fp     == IF dot = 0 THEN <<>> ELSE SubSeq(mant, dot + 1, Len(mant))
        ok     == /\ AllDigits(ip) /\ AllDigits(fp)
                  /\ Len(ip) + Len(fp) > 0
                  /\ (epos # 0 => (edig # <<>> /\ AllDigits(edig)))
        e      == IF epos = 0 THEN 0
                  ELSE IF eneg THEN -DigitsNat(TextDigits(edig))
                  ELSE DigitsNat(TextDigits(edig))
    IN  IF ~ok THEN Raise("InvalidOperation")
        ELSE [kind |-> "Decimal", sign |-> neg,
              int  |-> StripLeadingZeros(TextDigits(ip \o fp)),
              exp  |-> e - Len(fp)]

\* ROUND_HALF_EVEN in place of ROUND_HALF_UP: an exact half goes to the even neighbour
round_half_even(int, prec) ==
    LET exactHalf == /\ int[prec + 1] = 5
                     /\ \A i \in (prec + 2)..Len(int) : int[i] = 0
    IN  IF exactHalf /\ (prec = 0 \/ int[prec] % 2 = 0) THEN 0
        ELSE IF int[prec + 1] >= 5 THEN 1 ELSE 0

\* Decimal._round_half_up: 1 when the first discarded digit is 5 or more
round_half_up(int, prec) == IF int[prec + 1] >= 5 THEN 1 ELSE 0

\* str(int(coeff) + 1) on a digit sequence
RECURSIVE Increment(_)
Increment(ds) ==
    IF ds = <<>> THEN <<1>>
    ELSE IF ds[Len(ds)] < 9
    THEN SubSeq(ds, 1, Len(ds) - 1) \o <<ds[Len(ds)] + 1>>
    ELSE Increment(SubSeq(ds, 1, Len(ds) - 1)) \o <<0>>

\* Decimal._rescale(exp, ROUND_HALF_UP)
rescale(d, exp) ==
    IF d.int = <<0>> THEN [d EXCEPT !.exp = exp]
    ELSE IF d.exp >= exp
    THEN [d EXCEPT !.int = d.int \o Zeros(d.exp - exp), !.exp = exp]
    ELSE LET digits0 == Len(d.int) + d.exp - exp
             src     == IF digits0 < 0 THEN <<1>> ELSE d.int
             digits  == IF digits0 < 0 THEN 0 ELSE digits0
             kept    == IF digits = 0 THEN <<0>> ELSE SubSeq(src, 1, digits)
             coeff   == IF round_half_up(src, digits) = 1
                        THEN StripLeadingZeros(Increment(kept)) ELSE kept
         IN  [d EXCEPT !.int = coeff, !.exp = exp]

\* Decimal.quantize(Decimal(10) ** -decimales, rounding=ROUND_HALF_UP)
quantize(d, decimales) ==
    LET exp == -decimales
        ans == rescale(d, exp)
    IN  IF d.int = <<0>> THEN ans
        ELSE IF Len(d.int) + d.exp - exp > DecimalPrec THEN Raise("InvalidOperation")
        ELSE IF Len(ans.int) > DecimalPrec THEN Raise("InvalidOperation")
        ELSE ans

\* float(Decimal)
DecimalToFloat(d) == MkFloat(d.sign, d.int, d.exp)

\* str(valor) for the numeric argument types
PyStr(v) ==
    CASE v.kind = "float" -> float_repr(v)
      [] v.kind = "int"   -> (IF v.neg THEN <<"-">> ELSE <<>>) \o DigitsText(NatDigits(v.n))
      [] v.kind = "str"   -> v.text

redondear_decimal(valor, decimales) ==
    LET d == ParseDecimal(PyStr(valor))
    IN  IF d.kind = "raise" THEN d
        ELSE LET q == quantize(d, decimales)
             IN  IF q.kind = "raise" THEN q ELSE DecimalToFloat(q)

(***************************************************************************)
(* Calls of redondear_decimal                                              *)
(***************************************************************************)
MaxCoef == 1300

MaxFrac == 3

MaxPlaces == 3

BigExpLo == 24

BigExpHi == 26

Unit == IF MaxFrac > MaxPlaces THEN MaxFrac ELSE MaxPlaces

\* floats n * 10^-k, k <= MaxFrac, and integers, of both signs
SmallValues ==
    {MkFloat(neg, NatDigits(n), -k) : neg \in BOOLEAN, n \in 0..MaxCoef, k \in 0..MaxFrac}
    \cup {[kind |-> "int", neg |-> FALSE, n |-> n] : n \in 0..(MaxCoef \div 100)}
    \cup {[kind |-> "int", neg |-> TRUE, n |-> n] : n \in 1..(MaxCoef \div 100)}

\* floats d * 10^e near the precision of the decimal context
BigValues ==
    {MkFloat(neg, <<d>>, e) : neg \in BOOLEAN, d \in 1..9, e \in BigExpLo..BigExpHi}

InitRound ==
    /\ locale \in Locales
    /\ NoPage
    /\ pc = "call"
    /\ arg \in [fn : {"redondear_decimal"}, valor : SmallValues \cup BigValues,
                decimales : 0..MaxPlaces]
    /\ ret = NoRet
    /\ note = NoNote

CallRedondear ==
    /\ pc = "call"
    /\ arg.fn = "redondear_decimal"
    /\ ret' = redondear_decimal(arg.valor, arg.decimales)
    /\ pc' = "done"
    /\ UNCHANGED <<arg, note, locale, page>>

NextRound == CallRedondear

SpecRound == InitRound /\ [][NextRound]_vars

\* --- properties of redondear_decimal ------------------------------------
RoundDone == pc = "done" /\ arg.fn = "redondear_decimal"

\* magnitude of a small argument in units of 10^-Unit
ArgUnits(v) ==
    IF v.kind = "int" THEN v.n * Pow10(Unit)
    ELSE DigitsNat(v.coef) * Pow10(v.exp + Unit)

ArgNeg(v) == v.neg

ArgIsSmall(v) == v.kind = "int" \/ v.exp + Len(v.coef) <= 6

\* v rounded half away from zero to p places, in units of 10^-Unit
ExpectedUnits(v, p) ==
    LET step == Pow10(Unit - p)
    IN  ((2 * ArgUnits(v) + step) \div (2 * step)) * step

RetUnits(r) == DigitsNat(r.coef) * Pow10(r.exp + Unit)

\* number of significant digits the quantized value needs
NeededDigits(v, p) ==
    IF v.kind = "int" THEN Len(NatDigits(v.n)) + p ELSE Len(v.coef) + v.exp + p

\* C1 (as stated): for every finite value and every places >= 0 the call
\* returns the value rounded to `places` digits, ties away from zero.
RoundLegalTotal ==
    RoundDone =>
        /\ ret.kind = "float"
        /\ ArgIsSmall(arg.valor) =>
              /\ RetUnits(ret) = ExpectedUnits(arg.valor, arg.decimales)
              /\ (~IsZero(ret) => ret.neg = ArgNeg(arg.valor))

\* What the code guarantees: whenever the rounded value fits the 28
\* significant digits of the decimal context, the result is the argument
\* rounded to `places` decimal digits with ties away from zero, for either
\* sign; a value that needs more digits raises InvalidOperation.
RoundLegalWithinPrecision ==
    RoundDone =>
        IF ArgIsSmall(arg.valor)
        THEN /\ ret.kind = "float"
             /\ RetUnits(ret) = ExpectedUnits(arg.valor, arg.decimales)
             /\ (~IsZero(ret) => ret.neg = ArgNeg(arg.valor))
        ELSE IF NeededDigits(arg.valor, arg.decimales) <= DecimalPrec
        THEN ret.kind = "float" /\ FloatEq(ret, arg.valor)
        ELSE ret = Raise("InvalidOperation")

\* a negative tie has been rounded: -2.5 at 0 places gave -3
RoundTieWitness ==
    /\ RoundDone
    /\ arg.valor = MkFloat(TRUE, <<2, 5>>, -1)
    /\ arg.decimales = 0
    /\ ret = MkFloat(TRUE, <<3>>, 0)

(***************************************************************************)
(* formato_moneda and limpiar_valor_monetario                              *)
(***************************************************************************)
\* the digits of |x| * 100 rounded to an integer, as format(x, ".2f") rounds
\* them.  The rounding acts on the binary value of the float: when the
\* decimal digits of x are exactly halfway the binary value may lie on
\* either side, and tieUp says on which.
CentsDigits(x, tieUp) ==
    IF x.exp >= -2 THEN x.coef \o Zeros(x.exp + 2)
    ELSE LET drop   == -2 - x.exp
             padded == Zeros(drop + 1 - Len(x.coef)) \o x.coef
             n      == Len(padded)
             kept   == SubSeq(padded, 1, n - drop)
             first  == padded[n - drop + 1]
             more   == \E i \in (n - drop + 2)..n : padded[i] # 0
             up     == first > 5 \/ (first = 5 /\ (more \/ tieUp))
         IN  StripLeadingZeros(IF up THEN Increment(kept) ELSE kept)

\* the "," option of the format mini-language: a comma before every group
\* of three digits, counted from the right
RECURSIVE GroupThousands(_)
GroupThousands(ds) ==
    IF Len(ds) <= 3 THEN ds
    ELSE GroupThousands(SubSeq(ds, 1, Len(ds) - 3))
         \o <<",">> \o SubSeq(ds, Len(ds) - 2, Len(ds))

StrRet(cs) == [kind |-> "str", text |-> cs]

\* format(valor, ",.2f"): float.__format__ / int.__format__; None, str and
\* other objects do not accept the format specification
format_comma_2f(valor, tieUp) ==
    CASE valor.kind = "float" ->
            LET cs == CentsDigits(valor, tieUp)
                pd == Zeros(3 - Len(cs)) \o cs
                ip == SubSeq(pd, 1, Len(pd) - 2)
                fp == SubSeq(pd, Len(pd) - 1, Len(pd))
            IN  StrRet((IF valor.neg THEN <<"-">> ELSE <<>>)
                       \o GroupThousands(DigitsText(ip)) \o <<".">> \o DigitsText(fp))
      [] valor.kind = "int" ->
            StrRet((IF valor.neg THEN <<"-">> ELSE <<>>)
                   \o GroupThousands(DigitsText(NatDigits(valor.n))) \o <<".", "0", "0">>)
      [] valor.kind = "nan" -> StrRet(<<"n", "a", "n">>)
      [] valor.kind = "None" -> Raise("TypeError")
      [] valor.kind = "str" -> Raise("ValueError")
      [] OTHER -> Raise("TypeError")

\* the separator exchange with the dot and the comma swapped in one pass
\* less: "," -> "." and then "." -> ",", without the placeholder
SwapWithoutPlaceholder(cs) == Replace(Replace(cs, ",", <<".">>), ".", <<",">>)

\* .replace(",", "X").replace(".", ",").replace("X", ".")
SwapSeparators(cs) ==
    Replace(Replace(Replace(cs, ",", <<"X">>), ".", <<",">>), "X", <<".">>)

\* formato_moneda without the try/except: a formatting error propagates
formato_moneda_sin_except(valor, tieUp) ==
    LET f == format_comma_2f(valor, tieUp)
    IN  IF f.kind = "raise" THEN f
        ELSE StrRet(SwapSeparators(<<"$", " ">> \o f.text))

formato_moneda(valor, tieUp) ==
    LET f == format_comma_2f(valor, tieUp)
    IN  IF f.kind = "raise" THEN StrRet(<<"$", " ", "0", ",", "0", "0">>)
        ELSE StrRet(SwapSeparators(<<"$", " ">> \o f.text))

Whitespace == {" ", "\t"}

RECURSIVE LStrip(_)
LStrip(cs) == IF cs # <<>> /\ Head(cs) \in Whitespace THEN LStrip(Tail(cs)) ELSE cs

RECURSIVE RStrip(_)
RStrip(cs) ==
    IF cs # <<>> /\ cs[Len(cs)] \in Whitespace
    THEN RStrip(SubSeq(cs, 1, Len(cs) - 1)) ELSE cs

\* str.strip()
Strip(cs) == LStrip(RStrip(cs))

\* decimal exponents beyond which a double overflows to inf / underflows to 0
FloatMaxExp10 == 308

FloatMinExp10 == -324

Float0 == [kind |-> "float", neg |-> FALSE, coef |-> <<0>>, exp |-> 0]

\* float(text): surrounding whitespace ignored, then
\*   [sign] (digits [. [digits]] | . digits) [e [sign] digits]
\* over the characters the model draws texts from; any other text raises
\* ValueError
PyFloat(text) ==
    LET d == ParseDecimal(Strip(text))
    IN  IF d.kind = "raise" THEN Raise("ValueError")
        ELSE LET adj == Len(d.int) + d.exp - 1
             IN  IF d.int = <<0>> THEN MkFloat(d.sign, <<0>>, 0)
                 ELSE IF adj > FloatMaxExp10
                 THEN [kind |-> "float", neg |-> d.sign, coef |-> <<1>>,
                       exp |-> FloatMaxExp10 + 1]     \* inf
                 ELSE IF adj < FloatMinExp10 THEN MkFloat(d.sign, <<0>>, 0)
                 ELSE MkFloat(d.sign, d.int, d.exp)

\* the two-separator branch without the removal of the thousands dots
CleanSeparatorsKeepDots(limpio) ==
    IF Contains(limpio, ",") THEN Replace(limpio, ",", <<".">>) ELSE limpio

\* the two-separator branch with the roles exchanged: "," thousands, "." decimal
CleanSeparatorsUS(limpio) ==
    IF Contains(limpio, ",") /\ Contains(limpio, ".")
    THEN Replace(limpio, ",", <<>>)
    ELSE IF Contains(limpio, ",") THEN Replace(limpio, ",", <<".">>)
    ELSE limpio

\* lines 315-320: "." thousands and "," decimal when both occur, "," decimal
\* when it occurs alone
CleanSeparators(limpio) ==
    IF Contains(limpio, ",") /\ Contains(limpio, ".")
    THEN Replace(Replace(limpio, ".", <<>>), ",", <<".">>)
    ELSE IF Contains(limpio, ",") THEN Replace(limpio, ",", <<".">>)
    ELSE limpio

\* a failed parse reported by raising instead of by the 0.0 sentinel
OnParseErrorRaise(f) == f

\* the except branch: every exception becomes 0.0
OnParseError(f) == IF f.kind = "raise" THEN Float0 ELSE f

limpiar_valor_monetario(valor_str) ==
    IF valor_str.kind # "str" THEN OnParseError(Raise("AttributeError"))
    ELSE LET limpio == Strip(Replace(Replace(valor_str.text, "$", <<>>), " ", <<>>))
         IN  OnParseError(PyFloat(CleanSeparators(limpio)))

(***************************************************************************)
(* Calls of formato_moneda and limpiar_valor_monetario; a caller may pass  *)
(* the rendering of an amount back to the cleaner (ParseBack)              *)
(***************************************************************************)
MaxPesos == 120

MaxLen == 4

GroupSamples == {0, 1, 12, 234, 567, 999}

\* integer parts with no, one and two thousands groups
IntParts ==
    0..MaxPesos
    \cup {a * 1000000 + b * 1000 + c : a \in {0, 1, 12}, b \in GroupSamples, c \in GroupSamples}

\* fractional parts in thousandths
FracSamples == {0, 5, 10, 50, 125, 500, 560, 890, 990, 994, 995, 999}

Frac3(f) == Zeros(3 - Len(NatDigits(f))) \o NatDigits(f)

Amounts ==
    {MkFloat(neg, NatDigits(ip) \o Frac3(f), -3) :
        neg \in BOOLEAN, ip \in IntParts, f \in FracSamples}

NotNumbers ==
    { [kind |-> "None"],
      [kind |-> "str", text |-> <<"a", "b", "c">>],
      [kind |-> "str", text |-> <<"1", "2", ".", "5">>],
      [kind |-> "str", text |-> <<>>],
      [kind |-> "object"] }

FormatInputs ==
    Amounts
    \cup {[kind |-> "int", neg |-> FALSE, n |-> n] : n \in IntParts}
    \cup {[kind |-> "int", neg |-> TRUE, n |-> n] : n \in IntParts \ {0}}
    \cup {[kind |-> "nan"]}
    \cup NotNumbers

MoneyAlphabet == {"0", "1", "5", ".", ",", "$", " ", "-", "e"}

MoneyTexts == UNION {[1..n -> MoneyAlphabet] : n \in 0..MaxLen}

DecSamples == {<<>>, <<5>>, <<5, 6>>, <<0, 5>>, <<5, 0>>, <<2, 3, 4>>}

\* digits with "." between groups of three, as an Argentine amount is written
RECURSIVE DotGroups(_)
DotGroups(cs) ==
    IF Len(cs) <= 3 THEN cs
    ELSE DotGroups(SubSeq(cs, 1, Len(cs) - 3)) \o <<".">> \o SubSeq(cs, Len(cs) - 2, Len(cs))

\* the text of the amount ip.dec written in one of the four styles
BuildText(ip, dec, style, prefix, pad) ==
    LET id == DigitsText(NatDigits(ip))
        dd == DigitsText(dec)
        body == CASE style = "both"  -> DotGroups(id) \o <<",">> \o dd
                  [] style = "comma" -> id \o <<",">> \o dd
                  [] style = "dot"   -> id \o <<".">> \o dd
                  [] style = "plain" -> id
    IN  pad \o prefix \o body \o pad

BuiltInputs ==
    { <<ip, dec, style, prefix, pad>> \in
        IntParts \X DecSamples \X {"both", "comma", "dot", "plain"}
                 \X {<<>>, <<"$">>, <<"$", " ">>} \X {<<>>, <<" ">>, <<"\t">>} :
        /\ style = "both" => ip >= 1000
        /\ style = "plain" => dec = <<>>
        /\ ip > MaxPesos => (pad = <<>> /\ prefix # <<"$">>) }

BuiltNote(b) == [kind |-> "built", ip |-> b[1], dec |-> b[2], style |-> b[3]]

InitMoney ==
    /\ locale \in Locales
    /\ NoPage
    /\ pc = "call"
    /\ ret = NoRet
    /\ \/ /\ arg \in [fn : {"formato_moneda"}, valor : FormatInputs]
          /\ note = NoNote
       \/ /\ arg \in [fn : {"limpiar_valor_monetario"},
                      valor_str : {[kind |-> "str", text |-> t] : t \in MoneyTexts}
                                  \cup {[kind |-> "None"], Float0,
                                        [kind |-> "int", neg |-> FALSE, n |-> 5]}]
          /\ note = NoNote
       \/ \E b \in BuiltInputs :
            /\ arg = [fn |-> "limpiar_valor_monetario",
                      valor_str |-> [kind |-> "str",
                                     text |-> BuildText(b[1], b[2], b[3], b[4], b[5])]]
            /\ note = BuiltNote(b)

CallFormatoMoneda ==
    /\ pc = "call"
    /\ arg.fn = "formato_moneda"
    /\ \E tieUp \in BOOLEAN : ret' = formato_moneda(arg.valor, tieUp)
    /\ pc' = "done"
    /\ UNCHANGED <<arg, note, locale, page>>

\* the caller hands the rendering to limpiar_valor_monetario
ParseBack ==
    /\ pc = "done"
    /\ arg.fn = "formato_moneda"
    /\ arg' = [fn |-> "limpiar_valor_monetario", valor_str |-> ret]
    /\ note' = [kind |-> "rendered", valor |-> arg.valor]
    /\ ret' = NoRet
    /\ pc' = "call"
    /\ UNCHANGED <<locale, page>>

CallLimpiar ==
    /\ pc = "call"
    /\ arg.fn = "limpiar_valor_monetario"
    /\ ret' = limpiar_valor_monetario(arg.valor_str)
    /\ pc' = "done"
    /\ UNCHANGED <<arg, note, locale, page>>

NextMoney == CallFormatoMoneda \/ ParseBack \/ CallLimpiar

SpecMoney == InitMoney /\ [][NextMoney]_vars

\* --- properties of formato_moneda ---------------------------------------
FormatDone == pc = "done" /\ arg.fn = "formato_moneda"

IsNumber(v) == v.kind \in {"float", "int"}

\* a numeric amount that is a whole number of cents
WholeCents(v) == v.kind = "int" \/ (v.kind = "float" /\ v.exp >= -2)

AsFloat(v) == IF v.kind = "int" THEN MkFloat(v.neg, NatDigits(v.n), 0) ELSE v

\* the characters of t that are digits, in order
RECURSIVE OnlyDigits(_)
OnlyDigits(t) ==
    IF t = <<>> THEN <<>>
    ELSE (IF IsDigit(Head(t)) THEN <<DigitVal(Head(t))>> ELSE <<>>) \o OnlyDigits(Tail(t))

\* body is <integer part with "." between groups of three>,<two digits>
ArgentineBody(body) ==
    LET n  == Len(body)
        ib == SubSeq(body, 1, n - 3)
        m  == Len(ib)
    IN  /\ n >= 4
        /\ body[n - 2] = ","
        /\ IsDigit(body[n - 1]) /\ IsDigit(body[n])
        /\ \A j \in 1..m : IF (m - j + 1) % 4 = 0 THEN ib[j] = "." ELSE IsDigit(ib[j])
        /\ ib[1] # "."
        /\ (m > 1 => ib[1] # "0")

\* C3: for every numeric amount that is a whole number of cents the output
\* is "$ ", the sign of a negative amount, the integer part with "." between
\* each group of three digits, ",", and exactly two decimal digits; read
\* without its separators it is the amount in cents.
FormatoMonedaGrammar ==
    (FormatDone /\ IsNumber(arg.valor) /\ WholeCents(arg.valor)) =>
        LET t    == ret.text
            neg  == arg.valor.neg
            body == SubSeq(t, IF neg THEN 4 ELSE 3, Len(t))
        IN  /\ ret.kind = "str"
            /\ Len(t) >= 6
            /\ t[1] = "$" /\ t[2] = " "
            /\ (neg => t[3] = "-")
            /\ ArgentineBody(body)
            /\ FloatEq(MkFloat(neg, OnlyDigits(body), -2), AsFloat(arg.valor))

\* 1234567.89 has been rendered as "$ 1.234.567,89"
FormatoMonedaWitness ==
    /\ FormatDone
    /\ arg.valor = MkFloat(FALSE, <<1, 2, 3, 4, 5, 6, 7, 8, 9>>, -2)
    /\ Str(ret.text) = "$ 1.234.567,89"

LimpiarDone == pc = "done" /\ arg.fn = "limpiar_valor_monetario"

\* a non-negative amount with at most two decimal digits
NonNegativeCents(v) == IsNumber(v) /\ WholeCents(v) /\ ~v.neg

\* |x - y| < 0.01 for floats with at most three decimal digits
WithinOneCent(x, y) ==
    \/ FloatEq(x, y)
    \/ /\ x.exp >= -3 /\ y.exp >= -3
       /\ Len(x.coef) + x.exp <= 5 /\ Len(y.coef) + y.exp <= 5
       /\ LET a == (IF x.neg THEN -1 ELSE 1) * DigitsNat(x.coef) * Pow10(x.exp + 3)
              b == (IF y.neg THEN -1 ELSE 1) * DigitsNat(y.coef) * Pow10(y.exp + 3)
          IN  a - b < 10 /\ b - a < 10

\* C2: for every non-negative amount v with at most two decimal digits,
\* limpiar_valor_monetario(formato_moneda(v)) differs from v by less than
\* one cent, with or without thousands groups in the rendering.
RoundTripMoney ==
    (LimpiarDone /\ note.kind = "rendered" /\ NonNegativeCents(note.valor)) =>
        /\ ret.kind = "float"
        /\ WithinOneCent(ret, AsFloat(note.valor))

\* 1234567.89 (two thousands groups) has been rendered and read back
RoundTripWitness ==
    /\ LimpiarDone
    /\ note.kind = "rendered"
    /\ note.valor = MkFloat(FALSE, <<1, 2, 3, 4, 5, 6, 7, 8, 9>>, -2)
    /\ Str(arg.valor_str.text) = "$ 1.234.567,89"
    /\ ret = note.valor

\* C8: a text with both separators is read with "." as thousands separator
\* and "," as decimal separator, a text with "," alone with "," as decimal
\* separator, and a text with "." alone or with neither is parsed directly,
\* whatever "$" and whitespace surround it.
LimpiarSeparators ==
    (LimpiarDone /\ note.kind = "built") =>
        /\ ret.kind = "float"
        /\ FloatEq(ret, MkFloat(FALSE, NatDigits(note.ip) \o note.dec, -Len(note.dec)))

\* "$ 1.234,56" has been read as 1234.56
LimpiarSeparatorsWitness ==
    /\ LimpiarDone
    /\ note.kind = "built" /\ note.style = "both"
    /\ Str(arg.valor_str.text) = "$ 1.234,56"
    /\ ret = MkFloat(FALSE, <<1, 2, 3, 4, 5, 6>>, -2)

\* the grammar of float(), stated on the text
Mantissa(m) ==
    /\ \A i \in 1..Len(m) : IsDigit(m[i]) \/ m[i] = "."
    /\ Cardinality({i \in 1..Len(m) : m[i] = "."}) <= 1
    /\ \E i \in 1..Len(m) : IsDigit(m[i])

ExpPart(x) ==
    /\ x # <<>>
    /\ LET d == IF x[1] \in {"+", "-"} THEN Tail(x) ELSE x
       IN  d # <<>> /\ AllDigits(d)

Unsigned(u) ==
    \/ Mantissa(u)
    \/ \E k \in 1..Len(u) :
          /\ u[k] = "e"
          /\ Mantissa(SubSeq(u, 1, k - 1))
          /\ ExpPart(SubSeq(u, k + 1, Len(u)))

NumberText(cs) ==
    /\ cs # <<>>
    /\ IF cs[1] \in {"+", "-"} THEN Unsigned(Tail(cs)) ELSE Unsigned(cs)

\* some digit of the mantissa is not zero, and the exponent is not so low
\* that the amount is below the smallest double
NonZeroText(cs) ==
    LET k == Find(cs, "e")
        m == IF k = 0 THEN cs ELSE SubSeq(cs, 1, k - 1)
        x == IF k = 0 THEN <<>> ELSE SubSeq(cs, k + 1, Len(cs))
        d == IF x # <<>> /\ x[1] \in {"+", "-"} THEN Tail(x) ELSE x
    IN  /\ \E i \in 1..Len(m) : IsDigit(m[i]) /\ m[i] # "0"
        /\ (x # <<>> /\ x[1] = "-") => -DigitsNat(TextDigits(d)) - Len(m) > FloatMinExp10

\* the text float() is given: "$" and blanks removed, separators resolved
CleanedText(v) ==
    Strip(CleanSeparators(Strip(Replace(Replace(v.text, "$", <<>>), " ", <<>>))))

\* C9: limpiar_valor_monetario never raises; when the cleaned text is not a
\* parseable number, or the argument is not a string, it returns exactly 0.0,
\* and it returns a non-zero value for every parseable non-zero amount.
LimpiarNeverRaises ==
    LimpiarDone =>
        /\ ret.kind = "float"
        /\ IF arg.valor_str.kind # "str" THEN ret = Float0
           ELSE LET c == CleanedText(arg.valor_str)
                IN  /\ ~NumberText(c) => ret = Float0
                    /\ (NumberText(c) /\ NonZeroText(c)) => ~IsZero(ret)

\* a text with two decimal separators has been answered with 0.0
LimpiarFailWitness ==
    /\ LimpiarDone
    /\ arg.valor_str.kind = "str"
    /\ Str(arg.valor_str.text) = "1,,5"
    /\ ret = Float0

(***************************************************************************)
(* numero_a_letras.  A text is built as a sequence of tokens: words, the   *)
(* one-character separator " " and digits; Str joins them.                 *)
(***************************************************************************)
unidades == <<<<>>, <<"UN">>, <<"DOS">>, <<"TRES">>, <<"CUATRO">>, <<"CINCO">>,
              <<"SEIS">>, <<"SIETE">>, <<"OCHO">>, <<"NUEVE">>>>

decenas == <<<<>>, <<>>, <<"VEINTE">>, <<"TREINTA">>, <<"CUARENTA">>, <<"CINCUENTA">>,
             <<"SESENTA">>, <<"SETENTA">>, <<"OCHENTA">>, <<"NOVENTA">>>>

especiales == <<<<"DIEZ">>, <<"ONCE">>, <<"DOCE">>, <<"TRECE">>, <<"CATORCE">>,
                <<"QUINCE">>, <<"DIECISÉIS">>, <<"DIECISIETE">>, <<"DIECIOCHO">>,
                <<"DIECINUEVE">>>>

centenas == <<<<>>, <<"CIENTO">>, <<"DOSCIENTOS">>, <<"TRESCIENTOS">>,
              <<"CUATROCIENTOS">>, <<"QUINIENTOS">>, <<"SEISCIENTOS">>,
              <<"SETECIENTOS">>, <<"OCHOCIENTOS">>, <<"NOVECIENTOS">>>>

\* list[i] as Python indexes a list of ten entries: i in 0..9 from the
\* front, i in -10..-1 from the back (any other index raises IndexError)
ListItem(list, i) == IF i >= 0 THEN list[i + 1] ELSE list[i + 11]

\* convertir_grupo(n) raises IndexError: unidades[n] for n < -10,
\* centenas[n // 100] for n >= 1000
GrupoRaises(n) == n < -10 \/ n >= 1000

\* the group converter joining every tens word and unit word with " Y "
RECURSIVE convertir_grupo_siempre_y(_)
convertir_grupo_siempre_y(n) ==
    IF n = 0 THEN <<>>
    ELSE IF n = 100 THEN <<"CIEN">>
    ELSE IF n < 10 THEN ListItem(unidades, n)
    ELSE IF n < 20 THEN ListItem(especiales, n - 10)
    ELSE IF n < 100
    THEN IF n % 10 = 0 THEN ListItem(decenas, n \div 10)
         ELSE ListItem(decenas, n \div 10) \o <<" ", "Y", " ">> \o ListItem(unidades, n % 10)
    ELSE IF n % 100 = 0 THEN ListItem(centenas, n \div 100)
         ELSE ListItem(centenas, n \div 100) \o <<" ">> \o convertir_grupo_siempre_y(n % 100)

RECURSIVE convertir_grupo(_)
convertir_grupo(n) ==
    IF n = 0 THEN <<>>
    ELSE IF n = 100 THEN <<"CIEN">>
    ELSE IF n < 10 THEN ListItem(unidades, n)
    ELSE IF n < 20 THEN ListItem(especiales, n - 10)
    ELSE IF n < 100
    THEN LET dec == n \div 10
             uni == n % 10
         IN  IF uni = 0 THEN ListItem(decenas, dec)
             ELSE ListItem(decenas, dec)
                  \o (IF dec > 2 THEN <<" ", "Y", " ">> ELSE <<"I">>)
                  \o ListItem(unidades, uni)
    ELSE LET cen   == n \div 100
             resto == n % 100
         IN  IF resto = 0 THEN ListItem(centenas, cen)
             ELSE ListItem(centenas, cen) \o <<" ">> \o convertir_grupo(resto)

\* the digits of int(numero): truncation toward zero
EnteroDigits(x) ==
    LET n == Len(x.coef)
    IN  IF x.exp >= 0 THEN x.coef \o Zeros(x.exp)
        ELSE IF n + x.exp <= 0 THEN <<0>>
        ELSE SubSeq(x.coef, 1, n + x.exp)

\* the digits of |numero - entero| after the decimal point
FracDigits(x) ==
    LET n == Len(x.coef)
    IN  IF x.exp >= 0 THEN <<>>
        ELSE IF n + x.exp <= 0 THEN Zeros(-(n + x.exp)) \o x.coef
        ELSE SubSeq(x.coef, n + x.exp + 1, n)

\* |int(round((numero - entero) * 100))|.  round() acts on the binary value
\* of the product: when the decimal digits are exactly halfway it may lie on
\* either side, and tieUp says on which.
Centavos(x, tieUp) ==
    LET fd    == FracDigits(x) \o <<0, 0, 0>>
        base  == fd[1] * 10 + fd[2]
        first == fd[3]
        more  == \E i \in 4..Len(fd) : fd[i] # 0
        up    == first > 5 \/ (first = 5 /\ (more \/ tieUp))
    IN  IF up THEN base + 1 ELSE base

\* f"{decimal:02d}"
Format02d(neg, c) ==
    IF neg /\ c # 0 THEN <<"-">> \o DigitsText(NatDigits(c))
    ELSE IF c < 10 THEN <<"0">> \o DigitsText(NatDigits(c))
    ELSE DigitsText(NatDigits(c))

\* (convertir_grupo(millones) if millones > 1 else 'UN') + ' MILLÓN' + ('ES' if millones > 1 else '')
Millones(millones) ==
    (IF millones > 1 THEN convertir_grupo(millones) ELSE <<"UN">>)
    \o <<" ", "MILLÓN">> \o (IF millones > 1 THEN <<"ES">> ELSE <<>>)

\* lines 201-207 and 213-219: the thousands and the units below a million
BajoMillon(resto0) ==
    IF resto0 > 0
    THEN LET miles == resto0 \div 1000
             resto == IF resto0 >= 1000 THEN resto0 % 1000 ELSE resto0
         IN  (IF resto0 >= 1000 THEN <<" ">> \o convertir_grupo(miles) \o <<" ", "MIL">>
              ELSE <<>>)
             \o (IF resto > 0 THEN <<" ">> \o convertir_grupo(resto) ELSE <<>>)
    ELSE <<>>

\* texto for entero >= 0, given as digits; Raise when a group cannot be converted
Texto(ent) ==
    LET L == Len(ent)
    IN  IF L >= 10
        THEN LET miles_millon == DigitsNat(SubSeq(ent, 1, L - 9))
                 resto        == DigitsNat(SubSeq(ent, L - 8, L))
             IN  IF GrupoRaises(miles_millon) THEN Raise("IndexError")
                 ELSE StrRet(convertir_grupo(miles_millon) \o <<" ", "MIL">>
                             \o (IF resto >= 1000000
                                 THEN <<" ">> \o Millones(resto \div 1000000)
                                 ELSE <<>>)
                             \o BajoMillon(IF resto >= 1000000 THEN resto % 1000000
                                           ELSE resto))
        ELSE LET entero == DigitsNat(ent)
             IN  IF entero >= 1000000
                 THEN StrRet(Millones(entero \div 1000000) \o BajoMillon(entero % 1000000))
                 ELSE IF entero >= 1000
                 THEN StrRet(convertir_grupo(entero \div 1000) \o <<" ", "MIL">>
                             \o (IF entero % 1000 > 0
                                 THEN <<" ">> \o convertir_grupo(entero % 1000) ELSE <<>>))
                 ELSE StrRet(convertir_grupo(entero))

\* texto for a negative entero: every comparison with 1000, 1000000, ...
\* fails and convertir_grupo receives the negative number
TextoNegativo(ent) ==
    IF Len(ent) > 2 THEN Raise("IndexError")
    ELSE IF GrupoRaises(-DigitsNat(ent)) THEN Raise("IndexError")
    ELSE StrRet(convertir_grupo(-DigitsNat(ent)))

numero_a_letras(numero, tieUp) ==
    IF IsZero(numero) THEN StrRet(<<"CERO", " ", "PESOS">>)
    ELSE LET ent   == EnteroDigits(numero)
             texto == IF numero.neg /\ ent # <<0>> THEN TextoNegativo(ent) ELSE Texto(ent)
         IN  IF texto.kind = "raise" THEN texto
             ELSE StrRet(<<"PESOS", " ">> \o texto.text \o <<" ", "CON", " ">>
                         \o Format02d(numero.neg, Centavos(numero, tieUp)) \o <<"/100">>)

(***************************************************************************)
(* Calls of numero_a_letras                                                *)
(***************************************************************************)
MaxEntero == 1050

WordGroups == {0, 1, 2, 21, 100, 101, 999}

\* counts of thousands of millions, up to one the group converter cannot take
WordHighs == {0, 1, 2, 999, 1000}

WordFracs == {0, 1, 5, 50, 500, 560, 994, 995, 999}

Group3(g) == Zeros(3 - Len(NatDigits(g))) \o NatDigits(g)

WordEnteros ==
    {NatDigits(n) : n \in 0..MaxEntero}
    \cup {StripLeadingZeros(NatDigits(h) \o Group3(a) \o Group3(b) \o Group3(c)) :
            h \in WordHighs, a \in WordGroups, b \in WordGroups, c \in WordGroups}

WordValues ==
    {MkFloat(neg, e \o Frac3(f), -3) : neg \in BOOLEAN, e \in WordEnteros, f \in WordFracs}

InitWords ==
    /\ locale \in Locales
    /\ NoPage
    /\ pc = "call"
    /\ arg \in [fn : {"numero_a_letras"}, numero : WordValues]
    /\ ret = NoRet
    /\ note = NoNote

CallNumeroALetras ==
    /\ pc = "call"
    /\ arg.fn = "numero_a_letras"
    /\ \E tieUp \in BOOLEAN : ret' = numero_a_letras(arg.numero, tieUp)
    /\ pc' = "done"
    /\ UNCHANGED <<arg, note, locale, page>>

NextWords == CallNumeroALetras

SpecWords == InitWords /\ [][NextWords]_vars

\* --- properties of numero_a_letras --------------------------------------
WordsDone == pc = "done" /\ arg.fn = "numero_a_letras"

\* t is "PESOS " + <words> + " CON " + <two digits> + "/100"
PesosConCentavos(t) ==
    LET n == Len(t)
    IN  /\ n >= 8
        /\ t[1] = "PESOS" /\ t[2] = " "
        /\ t[n] = "/100"
        /\ IsDigit(t[n - 1]) /\ IsDigit(t[n - 2])
        /\ t[n - 3] = " " /\ t[n - 4] = "CON" /\ t[n - 5] = " "

\* C10: the output is "CERO PESOS" exactly when the value is 0, and for
\* every other value it is "PESOS " + <words of the integer part> + " CON "
\* + <two-digit cents> + "/100".
NumeroALetrasFormat ==
    WordsDone =>
        /\ ret.kind = "str"
        /\ IsZero(arg.numero) <=> Str(ret.text) = "CERO PESOS"
        /\ ~IsZero(arg.numero) => PesosConCentavos(ret.text)

\* what the docstring shows: 1234.56 and 1000000
NumeroALetrasExamples ==
    WordsDone =>
        /\ arg.numero = MkFloat(FALSE, <<1, 2, 3, 4, 5, 6>>, -2) =>
              Str(ret.text) = "PESOS UN MIL DOSCIENTOS TREINTA Y CUATRO CON 56/100"
        /\ arg.numero = MkFloat(FALSE, <<1>>, 6) =>
              Str(ret.text) = "PESOS UN MILLÓN CON 00/100"

(***************************************************************************)
(* safe_parse_date.  A date is [kind |-> "date", y, m, d]; the None result *)
(* is [kind |-> "None"].                                                   *)
(***************************************************************************)
None == [kind |-> "None"]

Date(y, m, d) == [kind |-> "date", y |-> y, m |-> m, d |-> d]

IsLeap(y) == (y % 4 = 0 /\ y % 100 # 0) \/ y % 400 = 0

\* the calendar datetime() validates against
DaysIn(y, m) ==
    IF m = 2 THEN (IF IsLeap(y) THEN 29 ELSE 28)
    ELSE IF m \in {4, 6, 9, 11} THEN 30 ELSE 31

\* datetime(y, m, d) does not raise ValueError
ValidYMD(y, m, d) ==
    /\ y >= 1 /\ y <= 9999
    /\ m >= 1 /\ m <= 12
    /\ d >= 1 /\ d <= DaysIn(y, m)

UpperChars == <<"A", "B", "C", "D", "E", "F", "G", "H", "I", "J", "K", "L", "M",
                "N", "O", "P", "Q", "R", "S", "T", "U", "V", "W", "X", "Y", "Z">>

LowerChars == <<"a", "b", "c", "d", "e", "f", "g", "h", "i", "j", "k", "l", "m",
                "n", "o", "p", "q", "r", "s", "t", "u", "v", "w", "x", "y", "z">>

UpperSet == {UpperChars[i] : i \in 1..26}

LowerOf == [u \in UpperSet |-> LowerChars[CHOOSE i \in 1..26 : UpperChars[i] = u]]

\* re.IGNORECASE: characters are compared in lower case
Lower(c) == IF c \in UpperSet THEN LowerOf[c] ELSE c

\* the month names time.strftime gives under the LC_TIME locale of the
\* process (_strptime.LocaleTime), in lower case
MonthNamesC ==
    <<<<"j", "a", "n", "u", "a", "r", "y">>,
       <<"f", "e", "b", "r", "u", "a", "r", "y">>,
       <<"m", "a", "r", "c", "h">>,
       <<"a", "p", "r", "i", "l">>,
       <<"m", "a", "y">>,
       <<"j", "u", "n", "e">>,
       <<"j", "u", "l", "y">>,
       <<"a", "u", "g", "u", "s", "t">>,
       <<"s", "e", "p", "t", "e", "m", "b", "e", "r">>,
       <<"o", "c", "t", "o", "b", "e", "r">>,
       <<"n", "o", "v", "e", "m", "b", "e", "r">>,
       <<"d", "e", "c", "e", "m", "b", "e", "r">>>>

MonthAbbrC ==
    <<<<"j", "a", "n">>,
       <<"f", "e", "b">>,
       <<"m", "a", "r">>,
       <<"a", "p", "r">>,
       <<"m", "a", "y">>,
       <<"j", "u", "n">>,
       <<"j", "u", "l">>,
       <<"a", "u", "g">>,
       <<"s", "e", "p">>,
       <<"o", "c", "t">>,
       <<"n", "o", "v">>,
       <<"d", "e", "c">>>>

MonthNamesEs ==
    <<<<"e", "n", "e", "r", "o">>,
       <<"f", "e", "b", "r", "e", "r", "o">>,
       <<"m", "a", "r", "z", "o">>,
       <<"a", "b", "r", "i", "l">>,
       <<"m", "a", "y", "o">>,
       <<"j", "u", "n", "i", "o">>,
       <<"j", "u", "l", "i", "o">>,
       <<"a", "g", "o", "s", "t", "o">>,
       <<"s", "e", "p", "t", "i", "e", "m", "b", "r", "e">>,
       <<"o", "c", "t", "u", "b", "r", "e">>,
       <<"n", "o", "v", "i", "e", "m", "b", "r", "e">>,
       <<"d", "i", "c", "i", "e", "m", "b", "r", "e">>>>

MonthAbbrEs ==
    <<<<"e", "n", "e">>,
       <<"f", "e", "b">>,
       <<"m", "a", "r">>,
       <<"a", "b", "r">>,
       <<"m", "a", "y">>,
       <<"j", "u", "n">>,
       <<"j", "u", "l">>,
       <<"a", "g", "o">>,
       <<"s", "e", "p">>,
       <<"o", "c", "t">>,
       <<"n", "o", "v">>,
       <<"d", "i", "c">>>>

f_month(loc) == IF loc = "C" THEN MonthNamesC ELSE MonthNamesEs

a_month(loc) == IF loc = "C" THEN MonthAbbrC ELSE MonthAbbrEs

D09 == {"0", "1", "2", "3", "4", "5", "6", "7", "8", "9"}

D19 == D09 \ {"0"}

Lit(name) == [i \in 1..Len(name) |-> {name[i]}]

\* names as regex alternatives, longest first (_strptime.TimeRE.__seqToRE)
RECURSIVE LongestFirst(_, _)
LongestFirst(names, len) ==
    IF len = 0 THEN <<>>
    ELSE SelectSeq(names, LAMBDA n : Len(n) = len) \o LongestFirst(names, len - 1)

NameAlts(names) ==
    LET sorted == LongestFirst(names, 12)
    IN  [i \in 1..Len(sorted) |-> Lit(sorted[i])]

\* the expressions of %B and %b under each locale
FullNameAlts == [loc \in Locales |-> NameAlts(f_month(loc))]

AbbrNameAlts == [loc \in Locales |-> NameAlts(a_month(loc))]

\* the regular expression of each directive (_strptime.TimeRE): a sequence
\* of alternatives in order, each a sequence of character classes
DirectiveAlts(dir, loc) ==
    CASE dir = "%d" -> << <<{"3"}, {"0", "1"}>>, <<{"1", "2"}, D09>>, <<{"0"}, D19>>,
                          <<D19>>, <<{" "}, D19>> >>
      [] dir = "%m" -> << <<{"1"}, {"0", "1", "2"}>>, <<{"0"}, D19>>, <<D19>> >>
      [] dir = "%Y" -> << <<D09, D09, D09, D09>> >>
      [] dir = "%H" -> << <<{"2"}, {"0", "1", "2", "3"}>>, <<{"0", "1"}, D09>>, <<D09>> >>
      [] dir = "%M" -> << <<{"0", "1", "2", "3", "4", "5"}, D09>>, <<D09>> >>
      [] dir = "%S" -> << <<{"6"}, {"0", "1"}>>, <<{"0", "1", "2", "3", "4", "5"}, D09>>,
                          <<D09>> >>
      [] dir = "%B" -> FullNameAlts[loc]
      [] dir = "%b" -> AbbrNameAlts[loc]

Directives == {"%d", "%m", "%Y", "%H", "%M", "%S", "%B", "%b"}

NoMatch == [ok |-> FALSE]

AltMatches(text, pos, alt) ==
    /\ pos + Len(alt) - 1 <= Len(text)
    /\ \A i \in 1..Len(alt) : Lower(text[pos + i - 1]) \in alt[i]

\* length of the run of whitespace starting at pos
RECURSIVE SpaceRun(_, _)
SpaceRun(text, pos) ==
    IF pos <= Len(text) /\ text[pos] \in Whitespace THEN 1 + SpaceRun(text, pos + 1) ELSE 0

\* re.match of the format's regular expression at pos: the first match in
\* the regex engine's order (alternatives left to right, \s+ greedy, with
\* backtracking); caps maps each directive to the text it captured
RECURSIVE MatchFmt(_, _, _, _, _)
RECURSIVE TryAlts(_, _, _, _, _, _, _)
RECURSIVE TrySpaces(_, _, _, _, _, _)
MatchFmt(text, pos, fmt, caps, loc) ==
    IF fmt = <<>> THEN [ok |-> TRUE, end |-> pos, caps |-> caps]
    ELSE LET tok == Head(fmt)
         IN  IF tok \in Directives
             THEN TryAlts(text, pos, DirectiveAlts(tok, loc), 1, fmt, caps, loc)
             ELSE IF tok = " "
             THEN TrySpaces(text, pos, SpaceRun(text, pos), Tail(fmt), caps, loc)
             ELSE IF pos <= Len(text) /\ Lower(text[pos]) = Lower(tok)
             THEN MatchFmt(text, pos + 1, Tail(fmt), caps, loc)
             ELSE NoMatch

TryAlts(text, pos, alts, i, fmt, caps, loc) ==
    IF i > Len(alts) THEN NoMatch
    ELSE IF AltMatches(text, pos, alts[i])
    THEN LET n == Len(alts[i])
             r == MatchFmt(text, pos + n, Tail(fmt),
                           [caps EXCEPT ![Head(fmt)] = SubSeq(text, pos, pos + n - 1)],
                           loc)
         IN  IF r.ok THEN r ELSE TryAlts(text, pos, alts, i + 1, fmt, caps, loc)
    ELSE TryAlts(text, pos, alts, i + 1, fmt, caps, loc)

TrySpaces(text, pos, n, rest, caps, loc) ==
    IF n < 1 THEN NoMatch
    ELSE LET r == MatchFmt(text, pos + n, rest, caps, loc)
         IN  IF r.ok THEN r ELSE TrySpaces(text, pos, n - 1, rest, caps, loc)

NoCaps == [d \in Directives |-> <<>>]

\* int() of a captured field (" 7" is 7)
CapInt(cs) == DigitsNat(TextDigits(SelectSeq(cs, IsDigit)))

\* position of a captured name in the locale's list
NameIndex(names, cs) ==
    LET low == [i \in 1..Len(cs) |-> Lower(cs[i])]
    IN  CHOOSE i \in 1..12 : names[i] = low

\* datetime.strptime(s, f): a datetime [y, m, d, H, M, S], or ValueError when
\* the expression does not match, text remains, or the date does not exist
strptime(s, f, loc) ==
    LET r == MatchFmt(s, 1, f, NoCaps, loc)
    IN  IF ~r.ok THEN Raise("ValueError")
        ELSE IF r.end # Len(s) + 1 THEN Raise("ValueError")
        ELSE LET c  == r.caps
                 y  == IF c["%Y"] = <<>> THEN 1900 ELSE CapInt(c["%Y"])
                 m  == IF c["%B"] # <<>> THEN NameIndex(f_month(loc), c["%B"])
                       ELSE IF c["%b"] # <<>> THEN NameIndex(a_month(loc), c["%b"])
                       ELSE IF c["%m"] = <<>> THEN 1 ELSE CapInt(c["%m"])
                 d  == IF c["%d"] = <<>> THEN 1 ELSE CapInt(c["%d"])
                 sec == IF c["%S"] = <<>> THEN 0 ELSE CapInt(c["%S"])
             IN  IF ValidYMD(y, m, d) /\ sec <= 59
                 THEN [kind |-> "datetime", y |-> y, m |-> m, d |-> d,
                       H |-> IF c["%H"] = <<>> THEN 0 ELSE CapInt(c["%H"]),
                       M |-> IF c["%M"] = <<>> THEN 0 ELSE CapInt(c["%M"]),
                       S |-> sec]
                 ELSE Raise("ValueError")

\* str.split(sep) for a one-character separator
RECURSIVE Split(_, _)
Split(cs, sep) ==
    LET i == Find(cs, sep)
    IN  IF i = 0 THEN <<cs>>
        ELSE <<SubSeq(cs, 1, i - 1)>> \o Split(SubSeq(cs, i + 1, Len(cs)), sep)

\* int(text): optional surrounding whitespace, optional sign, decimal digits
PyInt(cs) ==
    LET t      == Strip(cs)
        signed == t # <<>> /\ Head(t) \in {"+", "-"}
        ds     == IF signed THEN Tail(t) ELSE t
    IN  IF ds # <<>> /\ AllDigits(ds)
        THEN LET n == DigitsNat(TextDigits(ds))
             IN  [kind |-> "int", v |-> IF signed /\ Head(t) = "-" THEN 0 - n ELSE n]
        ELSE Raise("ValueError")

\* the list with the second format reading the month first
fmtsMonthFirst ==
    <<<<"%Y", "-", "%m", "-", "%d">>,
      <<"%m", "/", "%d", "/", "%Y">>,
      <<"%d", "-", "%m", "-", "%Y">>,
      <<"%m", "/", "%Y">>,
      <<"%Y", "/", "%m", "/", "%d">>,
      <<"%Y", "-", "%m">>,
      <<"%Y", "-", "%m", "-", "%d", " ", "%H", ":", "%M", ":", "%S">>,
      <<"%d", "/", "%m", "/", "%Y", " ", "%H", ":", "%M", ":", "%S">>,
      <<"%B", " ", "%Y">>,
      <<"%b", " ", "%Y">>,
      <<"%Y", "/", "%m">>,
      <<"%m", "-", "%Y">>>>

\* the list fmts, each format as its sequence of directives and literals
fmts ==
    <<<<"%Y", "-", "%m", "-", "%d">>,
      <<"%d", "/", "%m", "/", "%Y">>,
      <<"%d", "-", "%m", "-", "%Y">>,
      <<"%m", "/", "%Y">>,
      <<"%Y", "/", "%m", "/", "%d">>,
      <<"%Y", "-", "%m">>,
      <<"%Y", "-", "%m", "-", "%d", " ", "%H", ":", "%M", ":", "%S">>,
      <<"%d", "/", "%m", "/", "%Y", " ", "%H", ":", "%M", ":", "%S">>,
      <<"%B", " ", "%Y">>,
      <<"%b", " ", "%Y">>,
      <<"%Y", "/", "%m">>,
      <<"%m", "-", "%Y">>>>

\* the formats whose result is normalised to the first day of the month
MonthYearFmts ==
    { <<"%m", "/", "%Y">>,
      <<"%Y", "-", "%m">>,
      <<"%Y", "/", "%m">>,
      <<"%m", "-", "%Y">>,
      <<"%B", " ", "%Y">>,
      <<"%b", " ", "%Y">> }

\* the loop over fmts: index of the first format strptime accepts from i on,
\* 0 when every one raised
RECURSIVE FirstFmt(_, _, _)
FirstFmt(s, i, loc) ==
    IF i > Len(fmts) THEN 0
    ELSE IF strptime(s, fmts[i], loc).kind # "raise" THEN i
    ELSE FirstFmt(s, i + 1, loc)

\* the body of the loop for the accepted format f
FmtResult(s, f, loc) ==
    LET dt == strptime(s, f, loc)
    IN  IF f \in MonthYearFmts THEN Date(dt.y, dt.m, 1) ELSE Date(dt.y, dt.m, dt.d)

NoDate == [ok |-> FALSE, value |-> None]

\* the manual split without the test on the ranges
ManualSplitNoRange(s) ==
    IF Contains(s, "/") \/ Contains(s, "-")
    THEN LET parts == Split(Replace(s, "/", <<"-">>), "-")
         IN  IF Len(parts) = 2
             THEN LET year  == PyInt(parts[1])
                      month == PyInt(parts[2])
                  IN  IF year.kind = "raise" \/ month.kind = "raise" THEN NoDate
                      ELSE [ok |-> TRUE, value |-> Date(year.v, month.v, 1)]
             ELSE NoDate
    ELSE NoDate

\* the manual month/year split
ManualSplit(s) ==
    IF Contains(s, "/") \/ Contains(s, "-")
    THEN LET parts == Split(Replace(s, "/", <<"-">>), "-")
         IN  IF Len(parts) = 2
             THEN LET year  == PyInt(parts[1])
                      month == PyInt(parts[2])
                  IN  IF year.kind = "raise" \/ month.kind = "raise" THEN NoDate
                      ELSE IF 1900 <= year.v /\ year.v <= 2100 /\ 1 <= month.v /\ month.v <= 12
                      THEN [ok |-> TRUE, value |-> Date(year.v, month.v, 1)]
                      ELSE NoDate
             ELSE NoDate
    ELSE NoDate

\* pandas values: the missing-date marker NaT and a Timestamp
NaT == [kind |-> "NaT"]

Timestamp(y, m, d) == [kind |-> "Timestamp", y |-> y, m |-> m, d |-> d]

\* the years wholly inside the range of a pandas Timestamp
PdMinYear == 1678

PdMaxYear == 2261

\* the three numeric fields of a text a<sep>b<sep>yyyy (one separator among
\* / - . , one or two digits, one or two digits, four digits), <<>> otherwise
DelimitedFields(s) ==
    LET seps == {c \in {"/", "-", "."} : Contains(s, c)}
    IN  IF Cardinality(seps) # 1 THEN <<>>
        ELSE LET p == Split(s, CHOOSE c \in seps : TRUE)
             IN  IF /\ Len(p) = 3
                    /\ \A i \in 1..3 : p[i] # <<>> /\ AllDigits(p[i])
                    /\ Len(p[1]) <= 2 /\ Len(p[2]) <= 2 /\ Len(p[3]) = 4
                 THEN p ELSE <<>>

\* dates the general inference may come up with for a text outside the
\* delimited day/month/year shape
PdGuesses == {Timestamp(2024, 1, 2)}

\* the word and the year of a text <letters><blanks><four digits>, <<>>
\* for any other text
WordAndYear(s) ==
    LET i == Find(s, " ")
    IN  IF i < 2 THEN <<>>
        ELSE LET w == SubSeq(s, 1, i - 1)
                 y == LStrip(SubSeq(s, i + 1, Len(s)))
             IN  IF /\ \A k \in 1..Len(w) : Lower(w[k]) \in {LowerChars[c] : c \in 1..26}
                    /\ Len(y) = 4 /\ AllDigits(y)
                 THEN <<w, y>> ELSE <<>>

\* the month an English name or abbreviation stands for, 0 for another word
EnglishMonth(w) ==
    LET low == [k \in 1..Len(w) |-> Lower(w[k])]
    IN  IF \E i \in 1..12 : low \in {MonthNamesC[i], MonthAbbrC[i]}
        THEN CHOOSE i \in 1..12 : low \in {MonthNamesC[i], MonthAbbrC[i]}
        ELSE 0

\* the outcomes of pd.to_datetime(s, dayfirst=True, errors="coerce").  For a
\* delimited day/month/year text the day-first reading is taken when it is
\* a date, the month-first reading when only that one is a date, NaT when
\* neither is.  A word and a year is the first day of the month when the
\* word is an English month name (the only ones the inference knows,
\* whatever the locale), and NaT for another word.  For any other text the
\* inference of the installed pandas version is left open: NaT, some
\* Timestamp, or an exception.
PdOutcomes(s) ==
    LET p  == DelimitedFields(s)
        wy == WordAndYear(s)
    IN  IF p # <<>> /\ CapInt(p[3]) >= PdMinYear /\ CapInt(p[3]) <= PdMaxYear
        THEN LET a == CapInt(p[1])
                 b == CapInt(p[2])
                 y == CapInt(p[3])
             IN  IF ValidYMD(y, b, a) THEN {Timestamp(y, b, a)}
                 ELSE IF ValidYMD(y, a, b) THEN {Timestamp(y, a, b)}
                 ELSE {NaT}
        ELSE IF wy # <<>> /\ CapInt(wy[2]) >= PdMinYear /\ CapInt(wy[2]) <= PdMaxYear
        THEN IF EnglishMonth(wy[1]) > 0
             THEN {Timestamp(CapInt(wy[2]), EnglishMonth(wy[1]), 1)}
             ELSE {NaT}
        ELSE {NaT, Raise("Exception")} \cup PdGuesses

\* the last attempt, given the outcome dt of pd.to_datetime
pandas_attempt(dt) ==
    IF dt.kind = "raise" THEN None
    ELSE IF dt.kind = "NaT" THEN None
    ELSE IF dt.kind = "Timestamp" THEN Date(dt.y, dt.m, dt.d)
    ELSE None

Route(stage, f, value) == [stage |-> stage, fmt |-> f, value |-> value]

\* the text the stages work on: str(s).strip()
DateText(s) == IF s.kind \in {"str", "int", "float"} THEN Strip(PyStr(s)) ELSE <<>>

\* safe_parse_date up to the last attempt, with the stage (and format) that
\* produced the result; stage "pandas" says that the last attempt decides
parse_route(s, loc) ==
    IF s.kind = "None" \/ s.kind = "nan" THEN Route("missing", 0, None)
    ELSE IF s.kind = "datetime" THEN Route("object", 0, Date(s.y, s.m, s.d))
    ELSE IF s.kind = "NaT" THEN Route("object", 0, NaT)
    ELSE IF s.kind = "date" THEN Route("object", 0, s)
    ELSE LET t == DateText(s)
         IN  IF t = <<>> THEN Route("empty", 0, None)
             ELSE LET i == FirstFmt(t, 1, loc)
                  IN  IF i > 0 THEN Route("fmts", i, FmtResult(t, fmts[i], loc))
                      ELSE LET man == ManualSplit(t)
                           IN  IF man.ok THEN Route("manual", 0, man.value)
                               ELSE Route("pandas", 0, None)

\* dt is the outcome of pd.to_datetime should the last attempt be reached
safe_parse_date(s, loc, dt) ==
    LET r == parse_route(s, loc)
    IN  IF r.stage = "pandas" THEN pandas_attempt(dt) ELSE r.value

(***************************************************************************)
(* Calls of safe_parse_date.  The texts are built from numeric fields and  *)
(* separators, so that every format of fmts, the manual split and the last *)
(* attempt are each reached by some of them.                               *)
(***************************************************************************)
MaxDayField == 32

DayNums == (0..2) \cup {4, 12, 13} \cup (29..MaxDayField)

Unpadded(n) == DigitsText(NatDigits(n))

Pad2(n) == IF n < 10 THEN <<"0">> \o Unpadded(n) ELSE Unpadded(n)

DayFields == {Unpadded(n) : n \in DayNums} \cup {Pad2(n) : n \in {1, 2, 4}}

YearFields ==
    { <<"2", "0", "2", "4">>, <<"2", "0", "2", "3">>, <<"1", "9", "0", "0">>, <<"2", "4">> }

\* fields only int() reads as a number, and years out of range
OddFields ==
    { <<"0", "2", "0", "2", "4">>, <<"0", "2", "1", "0", "0">>, <<"0", "2", "1", "0", "1">>, <<"0", "1", "9", "0", "0">>, <<"0", "1", "8", "9", "9">>,
      <<"0", "9", "9", "9">>, <<"0", "1", "2">>, <<"0", "1", "3">>, <<" ", "1", "2">>, <<"+", "1", "2">> }

SepPairs == {<<"/", "/">>, <<"-", "-">>, <<".", ".">>, <<"/", "-">>}

Join3(a, s1, b, s2, c) == a \o <<s1>> \o b \o <<s2>> \o c

DayMonthYearTexts ==
    {Join3(a, sp[1], b, sp[2], y) : a \in DayFields, b \in DayFields, y \in YearFields,
                                    sp \in SepPairs}

YearMonthDayTexts ==
    {Join3(y, s, a, s, b) : y \in YearFields, a \in DayFields, b \in DayFields,
                            s \in {"-", "/"}}

TwoFieldTexts ==
    LET fs == DayFields \cup YearFields \cup OddFields
    IN  {a \o <<s>> \o b : a \in fs, b \in fs, s \in {"/", "-"}}

TimedDates ==
    { <<"2", "0", "2", "4", "-", "1", "2", "-", "3", "1">>, <<"3", "1", "/", "1", "2", "/", "2", "0", "2", "4">>, <<"3", "1", "-", "1", "2", "-", "2", "0", "2", "4">>,
      <<"2", "9", "/", "0", "2", "/", "2", "0", "2", "3">>, <<"1", "/", "2", "/", "2", "0", "2", "4">> }

Times ==
    { <<"0", "0", ":", "0", "0", ":", "0", "0">>, <<"1", "0", ":", "2", "0", ":", "3", "0">>, <<"1", ":", "2", ":", "3">>,
      <<"2", "3", ":", "5", "9", ":", "6", "0">>, <<"1", "0", ":", "2", "0">>, <<"2", "4", ":", "0", "0", ":", "0", "0">> }

TimedTexts == {d \o sp \o t : d \in TimedDates, sp \in {<<" ">>, <<" ", " ">>, <<"T">>}, t \in Times}

MonthWords ==
    { <<"D", "i", "c", "i", "e", "m", "b", "r", "e">>, <<"D", "I", "C", "I", "E", "M", "B", "R", "E">>, <<"D", "i", "c">>, <<"D", "e", "c", "e", "m", "b", "e", "r">>,
      <<"D", "e", "c">>, <<"M", "a", "y", "o">>, <<"M", "a", "y">>, <<"E", "n", "e", "r", "o">>,
      <<"E", "n", "e">>, <<"J", "a", "n", "u", "a", "r", "y">>, <<"S", "e", "t", "i", "e", "m", "b", "r", "e">>, <<"S", "e", "p">> }

NamedTexts ==
    {w \o sp \o y : w \in MonthWords, sp \in {<<" ">>, <<" ", " ">>, <<"/">>},
                    y \in YearFields \cup {<<"0", "9", "9", "9">>}}

OtherTexts ==
    { <<>>, <<" ">>, <<"\t", " ">>, <<"a", "b", "c">>,
      <<"2", "0", "2", "4">>, <<"3", "1", "/", "1", "2", "/", "2", "0", "2", "4", " ">>, <<" ", "2", "0", "2", "4", "-", "1", "2">>, <<"\t", "1", "2", "/", "2", "0", "2", "4", "\t">>,
      <<"0", "2", ".", "0", "4", ".", "2", "0", "2", "4">>, <<"2", ".", "4", ".", "2", "0", "2", "4">>, <<"0", "4", ".", "1", "3", ".", "2", "0", "2", "4">>, <<"3", "1", ".", "0", "2", ".", "2", "0", "2", "4">>,
      <<"3", "1", "/", "1", "2", "/", "2", "0", "2", "4", " ", "1", "0", ":", "2", "0", ":", "3", "0", " ">> }

DateTexts ==
    DayMonthYearTexts \cup YearMonthDayTexts \cup TwoFieldTexts \cup TimedTexts
        \cup NamedTexts \cup OtherTexts

DateObjects == {Date(2024, 2, 29), Date(2023, 12, 31), Date(1, 1, 1)}

DateTimeObjects ==
    {[kind |-> "datetime", y |-> d.y, m |-> d.m, d |-> d.d, H |-> 23, M |-> 59, S |-> 59] :
        d \in DateObjects}

\* the argument s: a missing marker (None, a NaN float, pandas' NaT), a date
\* or datetime object, a number, or a text
DateInputs ==
    {None, [kind |-> "nan"], NaT}
        \cup DateObjects \cup DateTimeObjects
        \cup {[kind |-> "int", neg |-> FALSE, n |-> 2024], MkFloat(FALSE, <<1, 2, 2, 0, 2, 4>>, -4)}
        \cup {[kind |-> "str", text |-> t] : t \in DateTexts}

InitDate ==
    /\ locale \in Locales
    /\ NoPage
    /\ pc = "call"
    /\ arg \in [fn : {"safe_parse_date"}, s : DateInputs]
    /\ ret = NoRet
    /\ note = NoNote

\* note keeps which stage (and which format) produced the result
CallSafeParseDate ==
    /\ pc = "call"
    /\ arg.fn = "safe_parse_date"
    /\ LET r == parse_route(arg.s, locale)
       IN  /\ note' = [kind |-> "route", stage |-> r.stage, fmt |-> r.fmt]
           /\ IF r.stage = "pandas"
              THEN \E dt \in PdOutcomes(DateText(arg.s)) : ret' = pandas_attempt(dt)
              ELSE ret' = r.value
    /\ pc' = "done"
    /\ UNCHANGED <<arg, locale, page>>

NextDate == CallSafeParseDate

SpecDate == InitDate /\ [][NextDate]_vars

\* --- properties of safe_parse_date ---------------------------------------
DateDone == pc = "done" /\ arg.fn = "safe_parse_date"

\* the parts of a text are three numbers of the given widths
Shape(p, w1, w2, w3) ==
    /\ Len(p) = 3
    /\ Len(p[1]) = w1 /\ Len(p[2]) = w2 /\ Len(p[3]) = w3
    /\ \A i \in 1..3 : AllDigits(p[i])

Num(cs) == DigitsNat(TextDigits(cs))

\* both readings of the first two fields are dates
Ambiguous(a, b, y) == ValidYMD(y, b, a) /\ ValidYMD(y, a, b)

Accepts(t, j) == strptime(t, fmts[j], locale).kind # "raise"

\* C5 (day-first, ordered formats): DD/MM/YYYY and DD-MM-YYYY of a valid
\* date parse to that date with the first field as the day, YYYY-MM-DD
\* parses to that date, the result comes from the first format of the list
\* that accepts the whole text, and an ambiguous delimited text that reaches
\* the last stage is read day first.
ParseDateDayFirst ==
    (DateDone /\ arg.s.kind = "str") =>
        LET raw == arg.s.text
            t   == Strip(raw)
        IN  /\ \A sep \in {"/", "-"} :
                 LET p == Split(raw, sep)
                 IN  (Shape(p, 2, 2, 4) /\ ValidYMD(Num(p[3]), Num(p[2]), Num(p[1])))
                         => ret = Date(Num(p[3]), Num(p[2]), Num(p[1]))
            /\ LET p == Split(raw, "-")
               IN  (Shape(p, 4, 2, 2) /\ ValidYMD(Num(p[1]), Num(p[2]), Num(p[3])))
                       => ret = Date(Num(p[1]), Num(p[2]), Num(p[3]))
            /\ (note.stage = "fmts") <=> (t # <<>> /\ \E j \in 1..Len(fmts) : Accepts(t, j))
            /\ note.stage = "fmts" =>
                 /\ Accepts(t, note.fmt)
                 /\ \A j \in 1..(note.fmt - 1) : ~Accepts(t, j)
                 /\ ret.kind = "date"
                 /\ LET dt == strptime(t, fmts[note.fmt], locale)
                    IN  ret.y = dt.y /\ ret.m = dt.m
            /\ note.stage = "pandas" =>
                 LET p == DelimitedFields(t)
                 IN  (/\ p # <<>>
                      /\ Num(p[3]) \in PdMinYear..PdMaxYear
                      /\ Ambiguous(Num(p[1]), Num(p[2]), Num(p[3])))
                         => ret = Date(Num(p[3]), Num(p[2]), Num(p[1]))

\* 02/04/2024 has been read as the 2nd of April
ParseDateDayFirstWitness ==
    /\ DateDone
    /\ arg.s = [kind |-> "str", text |-> <<"0", "2", "/", "0", "4", "/", "2", "0", "2", "4">>]
    /\ note.stage = "fmts"
    /\ ret = Date(2024, 4, 2)

\* 02.04.2024, which no format of the list accepts, has been read day first
\* by the last stage
ParseDateInferenceWitness ==
    /\ DateDone
    /\ arg.s = [kind |-> "str", text |-> <<"0", "2", ".", "0", "4", ".", "2", "0", "2", "4">>]
    /\ note.stage = "pandas"
    /\ ret = Date(2024, 4, 2)

\* the two numeric parts of a month/year text and which one is the year
TwoParts(t) == Split(Replace(t, "/", <<"-">>), "-")

\* the word and the year of a month-name text
NameWord(t) == SubSeq(t, 1, Find(t, " ") - 1)

NameYear(t) == SubSeq(t, Len(t) - 3, Len(t))

LowerText(cs) == [i \in 1..Len(cs) |-> Lower(cs[i])]

NameMonth(w) ==
    CHOOSE i \in 1..12 : LowerText(w) \in {f_month(locale)[i], a_month(locale)[i]}

\* C6 (month/year only): a text accepted by MM/YYYY, YYYY-MM, YYYY/MM,
\* MM-YYYY or month name + year gives the first day of that month of that
\* year; the manual split accepts exactly two numeric parts read as (year,
\* month) with 1900 <= year <= 2100 and 1 <= month <= 12 and gives the first
\* day of that month; a two-part text outside those ranges that no format
\* accepts goes on to the last stage.
MonthYearFirstDay ==
    (DateDone /\ arg.s.kind = "str") =>
        LET t == Strip(arg.s.text)
            p == TwoParts(t)
        IN  /\ (note.stage = "fmts" /\ fmts[note.fmt] \in MonthYearFmts) =>
                 IF Head(fmts[note.fmt]) \in {"%B", "%b"}
                 THEN ret = Date(Num(NameYear(t)), NameMonth(NameWord(t)), 1)
                 ELSE /\ Len(p) = 2
                      /\ IF Len(p[1]) = 4
                         THEN ret = Date(Num(p[1]), Num(p[2]), 1)
                         ELSE ret = Date(Num(p[2]), Num(p[1]), 1)
            /\ note.stage = "manual" =>
                 /\ Len(p) = 2
                 /\ PyInt(p[1]).kind = "int" /\ PyInt(p[2]).kind = "int"
                 /\ PyInt(p[1]).v \in 1900..2100
                 /\ PyInt(p[2]).v \in 1..12
                 /\ ret = Date(PyInt(p[1]).v, PyInt(p[2]).v, 1)
            /\ (/\ Len(p) = 2
                /\ PyInt(p[1]).kind = "int" /\ PyInt(p[2]).kind = "int"
                /\ ~(PyInt(p[1]).v \in 1900..2100 /\ PyInt(p[2]).v \in 1..12)
                /\ \A j \in 1..Len(fmts) : ~Accepts(t, j))
                   => note.stage = "pandas"

\* 02024-12, which no format accepts, has been read by the manual split
MonthYearManualWitness ==
    /\ DateDone
    /\ arg.s = [kind |-> "str", text |-> <<"0", "2", "0", "2", "4", "-", "1", "2">>]
    /\ note.stage = "manual"
    /\ ret = Date(2024, 12, 1)

\* 12/2024 has been read by the format MM/YYYY and 12/12 went on to the
\* last stage
MonthYearExamples ==
    DateDone =>
        /\ arg.s = [kind |-> "str", text |-> <<"1", "2", "/", "2", "0", "2", "4">>] =>
              note = [kind |-> "route", stage |-> "fmts", fmt |-> 4] /\ ret = Date(2024, 12, 1)
        /\ arg.s = [kind |-> "str", text |-> <<"1", "2", "/", "1", "2">>] => note.stage = "pandas"

\* a day/month/year text a/b/yyyy whose month exists and whose day does not
NoSuchDay(t) ==
    LET p == DelimitedFields(t)
    IN  /\ p # <<>>
        /\ Num(p[3]) >= 1
        /\ Num(p[2]) \in 1..12
        /\ Num(p[1]) > DaysIn(Num(p[3]), Num(p[2]))

\* what holds of a call whatever the argument, the missing marker NaT apart
FailSoft ==
    /\ ret.kind \in {"None", "date"}
    /\ ret.kind = "date" => ValidYMD(ret.y, ret.m, ret.d)
    /\ arg.s.kind \in {"None", "nan"} => ret = None
    /\ arg.s.kind \in {"date", "datetime"} => ret = Date(arg.s.y, arg.s.m, arg.s.d)
    /\ arg.s.kind = "str" =>
         LET t == Strip(arg.s.text)
         IN  /\ t = <<>> => ret = None
             /\ NoSuchDay(t) => ret = None
             /\ note.stage = "manual" => \A j \in 1..Len(fmts) : ~Accepts(t, j)
             /\ note.stage = "pandas" =>
                  /\ \A j \in 1..Len(fmts) : ~Accepts(t, j)
                  /\ ~ManualSplit(t).ok

\* C7 (total, fail-soft): every call returns, without raising, None or a
\* valid calendar date; None, NaN, the empty and the whitespace-only text
\* and a day/month/year text naming a day that does not exist give None; a
\* stage is reached only when the stages before it failed.
ParseDateTotal == DateDone => FailSoft

\* What the code guarantees: the same, for every argument but pandas' NaT,
\* which is an instance of datetime and is answered with NaT.date().
ParseDateTotalButNaT == (DateDone /\ arg.s # NaT) => FailSoft

\* 31/02/2024 has passed every stage and given None
ParseDateNoSuchDayWitness ==
    /\ DateDone
    /\ arg.s = [kind |-> "str", text |-> <<"3", "1", "/", "0", "2", "/", "2", "0", "2", "4">>]
    /\ note.stage = "pandas"
    /\ ret = None

(***************************************************************************)
(* Further properties of numero_a_letras                                   *)
(***************************************************************************)
\* position of the token CON of a phrase
ConIndex(t) == CHOOSE i \in 1..Len(t) : t[i] = "CON"

\* the text between " CON " and "/100"
CentsField(t) == SubSeq(t, ConIndex(t) + 2, Len(t) - 1)

\* the tokens between "PESOS " and " CON "
WordsField(t) == SubSeq(t, 3, ConIndex(t) - 2)

\* C11: for every value other than 0 the field between " CON " and "/100"
\* is exactly two decimal digits and equals the absolute fractional part of
\* the value in cents, rounded.
NumeroALetrasCents ==
    (WordsDone /\ ret.kind = "str" /\ ~IsZero(arg.numero)) =>
        LET c == CentsField(ret.text)
        IN  /\ Len(c) = 2
            /\ AllDigits(c)
            /\ \E tieUp \in BOOLEAN : Num(c) = Centavos(arg.numero, tieUp)

\* What the code guarantees: the field is the rounded fraction in cents,
\* written with at least two digits, and with a minus sign for a negative
\* value with cents; it is two digits only when the value is not negative
\* and its fraction rounds below 100 cents.
NumeroALetrasCentsAsCoded ==
    (WordsDone /\ ret.kind = "str" /\ ~IsZero(arg.numero)) =>
        LET c == CentsField(ret.text)
        IN  \E tieUp \in BOOLEAN :
              LET cents == Centavos(arg.numero, tieUp)
              IN  /\ c = Format02d(arg.numero.neg, cents)
                  /\ (~arg.numero.neg /\ cents < 100) => (Len(c) = 2 /\ AllDigits(c))
                  /\ (~arg.numero.neg /\ cents = 100) => Len(c) = 3

\* the words of a value below 100 as the group rule gives them
TwoDigitRule(n) ==
    IF n < 10 THEN unidades[n + 1]
    ELSE IF n < 20 THEN especiales[n - 9]
    ELSE IF n % 10 = 0 THEN decenas[(n \div 10) + 1]
    ELSE IF n \div 10 > 2
    THEN decenas[(n \div 10) + 1] \o <<" ", "Y", " ">> \o unidades[(n % 10) + 1]
    ELSE decenas[(n \div 10) + 1] \o <<"I">> \o unidades[(n % 10) + 1]

\* the words of a group value 1..999 as the group rule gives them
GroupRule(n) ==
    IF n = 100 THEN <<"CIEN">>
    ELSE IF n < 100 THEN TwoDigitRule(n)
    ELSE IF n < 200 THEN <<"CIENTO", " ">> \o TwoDigitRule(n - 100)
    ELSE IF n % 100 = 0 THEN centenas[(n \div 100) + 1]
    ELSE centenas[(n \div 100) + 1] \o <<" ">> \o TwoDigitRule(n % 100)

\* the call was for a value that is not negative and whose integer part has
\* at most k digits
UpToDigits(k) ==
    /\ WordsDone
    /\ ~arg.numero.neg
    /\ Len(EnteroDigits(arg.numero)) <= k

Entero == DigitsNat(EnteroDigits(arg.numero))

\* C12 (group rule): for a group value n in 1..999, 100 is CIEN, 101..199
\* are CIENTO and the words of n - 100, the other hundreds are the hundreds
\* word and, after a space, the words of a non-zero remainder, 10..19 are
\* the teen words, and a tens word is joined to a unit word by " Y " above
\* the twenties and by "I" in the twenties.
GrupoRule ==
    (UpToDigits(3) /\ Entero >= 1) =>
        /\ ret.kind = "str"
        /\ WordsField(ret.text) = GroupRule(Entero)

\* 121 has been written CIENTO VEINTEIUN
GrupoRuleWitness ==
    /\ UpToDigits(3)
    /\ Entero = 121
    /\ Str(WordsField(ret.text)) = "CIENTO VEINTEIUN"

\* the count of millions of the integer part (below a million millions)
MillionCount ==
    LET ent == EnteroDigits(arg.numero)
    IN  IF Len(ent) <= 6 THEN 0 ELSE DigitsNat(SubSeq(ent, 1, Len(ent) - 6))

\* the words of a count of millions: a group, or a group, MIL and the
\* millions within that scale
CountWords(n) ==
    IF n < 1000 THEN GroupRule(n)
    ELSE GroupRule(n \div 1000) \o <<" ", "MIL">>
         \o (IF n % 1000 > 0 THEN <<" ">> \o GroupRule(n % 1000) ELSE <<>>)

\* the words start with the tokens pre, followed by a space or by nothing
StartsWith(words, pre) ==
    /\ Len(words) >= Len(pre)
    /\ SubSeq(words, 1, Len(pre)) = pre
    /\ Len(words) > Len(pre) => words[Len(pre) + 1] = " "

\* the text of the words starts with the string str, at a token boundary
StartsWithText(words, str) ==
    \E i \in 1..Len(words) :
        /\ Str(SubSeq(words, 1, i)) = str
        /\ Len(words) > i => words[i + 1] = " "

\* C13 (million scale): exactly one million is written UN MILLÓN, and every
\* count N of more than one million, also of a thousand millions and above,
\* is written as the words of N followed by MILLONES.
MillionScale ==
    (UpToDigits(12) /\ MillionCount >= 1) =>
        /\ ret.kind = "str"
        /\ LET words == WordsField(ret.text)
           IN  IF MillionCount = 1 THEN StartsWith(words, <<"UN", " ", "MILLÓN">>)
               ELSE StartsWithText(words, Str(CountWords(MillionCount)) \o " MILLONES")

\* What the code guarantees below a thousand millions: one million is UN
\* MILLÓN and a count N above one is the words of N followed by MILLÓN and
\* ES, that is MILLÓNES with the accent kept.
MillionScaleAsCoded ==
    (UpToDigits(9) /\ MillionCount >= 1) =>
        /\ ret.kind = "str"
        /\ LET words == WordsField(ret.text)
           IN  IF MillionCount = 1 THEN StartsWith(words, <<"UN", " ", "MILLÓN">>)
               ELSE /\ StartsWith(words, GroupRule(MillionCount) \o <<" ", "MILLÓN", "ES">>)
                    /\ StartsWithText(words, Str(GroupRule(MillionCount)) \o " MILLÓNES")

\* C14 (no failure path): for every finite value, of any magnitude and
\* sign, the call returns a phrase and does not raise.
NumeroALetrasNeverRaises == WordsDone => ret.kind = "str"

\* What the code guarantees: the call raises IndexError exactly for a value
\* of a million millions or more and for a value of -11 or less, and
\* returns a phrase for every other one.
NumeroALetrasRaisesWhen ==
    WordsDone =>
        LET ent == EnteroDigits(arg.numero)
            out == IF arg.numero.neg THEN Len(ent) > 2 \/ DigitsNat(ent) > 10
                   ELSE Len(ent) > 12
        IN  IF out THEN ret = Raise("IndexError") ELSE ret.kind = "str"

(***************************************************************************)
(* days_in_month                                                           *)
(***************************************************************************)
\* date(y, m, d): ValueError outside the calendar (years 1..9999)
PyDate(y, m, d) == IF ValidYMD(y, m, d) THEN Date(y, m, d) ELSE Raise("ValueError")

\* days before 1 January of year y (date.toordinal)
DaysBeforeYear(y) ==
    (y - 1) * 365 + ((y - 1) \div 4) - ((y - 1) \div 100) + ((y - 1) \div 400)

\* days of year y before the first day of month m
RECURSIVE DaysBeforeMonth(_, _)
DaysBeforeMonth(y, m) ==
    IF m = 1 THEN 0 ELSE DaysBeforeMonth(y, m - 1) + DaysIn(y, m - 1)

toordinal(d) == DaysBeforeYear(d.y) + DaysBeforeMonth(d.y, d.m) + d.d

IntRet(v) == [kind |-> "int", v |-> v]

days_in_month(d) ==
    LET nxt == IF d.m = 12 THEN PyDate(d.y + 1, 1, 1) ELSE PyDate(d.y, d.m + 1, 1)
    IN  IF nxt.kind = "raise" THEN nxt
        ELSE IntRet(toordinal(nxt) - toordinal(Date(d.y, d.m, 1)))

\* years of the calls: the first and the last two of the calendar, century
\* years that are and are not leap, a leap and a common year
DayYears == {1, 1900, 2000, 2023, 2024, 2100, 9998, 9999}

DayDates ==
    {x \in [kind : {"date"}, y : DayYears, m : 1..12, d : 1..31] : ValidYMD(x.y, x.m, x.d)}

InitDays ==
    /\ locale \in Locales
    /\ NoPage
    /\ pc = "call"
    /\ arg \in [fn : {"days_in_month"}, d : DayDates]
    /\ ret = NoRet
    /\ note = NoNote

CallDaysInMonth ==
    /\ pc = "call"
    /\ arg.fn = "days_in_month"
    /\ ret' = days_in_month(arg.d)
    /\ pc' = "done"
    /\ UNCHANGED <<arg, note, locale, page>>

NextDays == CallDaysInMonth

SpecDays == InitDays /\ [][NextDays]_vars

\* --- properties of days_in_month -----------------------------------------
DaysDone == pc = "done" /\ arg.fn = "days_in_month"

\* the length of a month under the Gregorian 4/100/400 rule
MonthLength(y, m) ==
    IF m \in {1, 3, 5, 7, 8, 10, 12} THEN 31
    ELSE IF m \in {4, 6, 9, 11} THEN 30
    ELSE IF (y % 4 = 0 /\ y % 100 # 0) \/ y % 400 = 0 THEN 29
    ELSE 28

\* C15: for every valid date the result is the number of days of its month
\* (31, 30, 29 for February of a leap year, 28 otherwise), whatever the day,
\* December included.
DaysInMonthLength == DaysDone => ret = IntRet(MonthLength(arg.d.y, arg.d.m))

\* What the code guarantees: the same, but for the dates of December 9999,
\* for which 1 January of the following year is not a date and the call
\* raises ValueError.
DaysInMonthAsCoded ==
    DaysDone =>
        IF arg.d.y = 9999 /\ arg.d.m = 12 THEN ret = Raise("ValueError")
        ELSE ret = IntRet(MonthLength(arg.d.y, arg.d.m))

(***************************************************************************)
(* formato_porcentaje                                                      *)
(***************************************************************************)
RECURSIVE Repeat(_, _)
Repeat(cs, k) == IF k <= 0 THEN <<>> ELSE cs \o Repeat(cs, k - 1)

\* valor * 100 for each type of argument: a number is multiplied, a text is
\* repeated, None raises TypeError, a list is repeated (and stays a list)
Times100(valor) ==
    CASE valor.kind = "float" -> MkFloat(valor.neg, valor.coef, valor.exp + 2)
      [] valor.kind = "int"   -> MkFloat(valor.neg, NatDigits(valor.n) \o <<0, 0>>, 0)
      [] valor.kind = "bool"  -> MkFloat(FALSE, IF valor.b THEN <<1, 0, 0>> ELSE <<0>>, 0)
      [] valor.kind = "nan"   -> valor
      [] valor.kind = "str"   -> [kind |-> "str", text |-> Repeat(valor.text, 100)]
      [] valor.kind = "None"  -> Raise("TypeError")
      [] OTHER                -> valor

\* the precision named by the format specification "." + str(decimales) +
\* "f": the digits of a non-negative int or of a text of digits; any other
\* value of decimales gives a specification format() rejects
Precision(decimales) ==
    CASE decimales.kind = "int" /\ ~decimales.neg -> IntRet(decimales.n)
      [] decimales.kind = "str" /\ decimales.text # <<>> /\ AllDigits(decimales.text) ->
            IntRet(DigitsNat(TextDigits(decimales.text)))
      [] OTHER -> Raise("ValueError")

\* format(x, ".<d>f") for a float x: the digits of |x| * 10^d rounded to an
\* integer, a "." before the last d of them when d > 0, the sign of x kept.
\* The rounding acts on the binary value of x: when the decimal digits are
\* exactly halfway it may go either way, and tieUp says which.
format_f(x, d, tieUp) ==
    LET drop   == 0 - d - x.exp
        padded == Zeros(drop + 1 - Len(x.coef)) \o x.coef
        n      == Len(padded)
        up     == /\ drop > 0
                  /\ \/ padded[n - drop + 1] > 5
                     \/ /\ padded[n - drop + 1] = 5
                        /\ (tieUp \/ \E i \in (n - drop + 2)..n : padded[i] # 0)
        scaled == IF drop <= 0 THEN x.coef \o Zeros(0 - drop)
                  ELSE IF up THEN Increment(SubSeq(padded, 1, n - drop))
                  ELSE SubSeq(padded, 1, n - drop)
        ds     == StripLeadingZeros(scaled)
        full   == Zeros(d + 1 - Len(ds)) \o ds
    IN  (IF x.neg THEN <<"-">> ELSE <<>>)
        \o DigitsText(SubSeq(full, 1, Len(full) - d))
        \o (IF d > 0 THEN <<".">> \o DigitsText(SubSeq(full, Len(full) - d + 1, Len(full)))
            ELSE <<>>)

\* f"{porcentaje:.{decimales}f}%": Raise when the specification or the type
\* of porcentaje is not accepted
percent_fstring(porcentaje, decimales, tieUp) ==
    LET prec == Precision(decimales)
    IN  IF porcentaje.kind = "raise" THEN porcentaje
        ELSE IF prec.kind = "raise" THEN prec
        ELSE IF porcentaje.kind = "float"
        THEN StrRet(format_f(porcentaje, prec.v, tieUp) \o <<"%">>)
        ELSE IF porcentaje.kind = "nan" THEN StrRet(<<"n", "a", "n", "%">>)
        ELSE IF porcentaje.kind = "str" THEN Raise("ValueError")
        ELSE Raise("TypeError")

\* the function without the replacement of the decimal point
formato_porcentaje_con_punto(valor, decimales, tieUp) ==
    LET f == percent_fstring(Times100(valor), decimales, tieUp)
    IN  IF f.kind = "raise" THEN StrRet(<<"0", ",", "0", "0", "%">>) ELSE f

formato_porcentaje(valor, decimales, tieUp) ==
    LET f == percent_fstring(Times100(valor), decimales, tieUp)
    IN  IF f.kind = "raise" THEN StrRet(<<"0", ",", "0", "0", "%">>)
        ELSE StrRet(Replace(f.text, ".", <<",">>))

(***************************************************************************)
(* Calls of formato_porcentaje                                             *)
(***************************************************************************)
MaxPercentCoef == 130

MaxDecimales == 3

\* fractions coef * 10^e, and 12345.678 for an integer part of many digits
PercentFloats ==
    {MkFloat(neg, NatDigits(c), e) : neg \in BOOLEAN, c \in 0..MaxPercentCoef, e \in -5..0}
        \cup {MkFloat(FALSE, <<1, 5, 6, 7>>, -4), MkFloat(FALSE, <<1, 2, 3, 4, 5, 6, 7, 8>>, -3)}

PercentValues ==
    PercentFloats
        \cup {[kind |-> "int", neg |-> neg, n |-> n] : neg \in BOOLEAN, n \in 1..2}
        \cup {[kind |-> "int", neg |-> FALSE, n |-> 0], [kind |-> "bool", b |-> TRUE],
              [kind |-> "nan"], None, [kind |-> "object"],
              [kind |-> "str", text |-> <<"a">>], [kind |-> "str", text |-> <<"1", "5">>]}

PercentDecimales ==
    {[kind |-> "int", neg |-> FALSE, n |-> d] : d \in 0..MaxDecimales}
        \cup {[kind |-> "int", neg |-> TRUE, n |-> 1], None, [kind |-> "bool", b |-> TRUE],
              MkFloat(FALSE, <<2>>, 0), [kind |-> "str", text |-> <<"2">>],
              [kind |-> "str", text |-> <<"x">>]}

InitPercent ==
    /\ locale \in Locales
    /\ NoPage
    /\ pc = "call"
    /\ arg \in [fn : {"formato_porcentaje"}, valor : PercentValues, decimales : PercentDecimales]
    /\ ret = NoRet
    /\ note = NoNote

CallFormatoPorcentaje ==
    /\ pc = "call"
    /\ arg.fn = "formato_porcentaje"
    /\ \E tieUp \in BOOLEAN : ret' = formato_porcentaje(arg.valor, arg.decimales, tieUp)
    /\ pc' = "done"
    /\ UNCHANGED <<arg, note, locale, page>>

NextPercent == CallFormatoPorcentaje

SpecPercent == InitPercent /\ [][NextPercent]_vars

\* --- properties of formato_porcentaje ------------------------------------
PercentDone == pc = "done" /\ arg.fn = "formato_porcentaje"

\* decimales is an int d >= 0
PlainDecimales == arg.decimales.kind = "int" /\ ~arg.decimales.neg

\* the text is [-]<digits>[,<d digits>]% : no point, no thousands separator
PercentShape(t, d) ==
    LET body == IF t # <<>> /\ Head(t) = "-" THEN Tail(t) ELSE t
        n    == Len(body)
    IN  /\ n >= 2 /\ body[n] = "%"
        /\ IF d = 0 THEN AllDigits(SubSeq(body, 1, n - 1))
           ELSE /\ n >= d + 3
                /\ body[n - d - 1] = ","
                /\ AllDigits(SubSeq(body, 1, n - d - 2))
                /\ AllDigits(SubSeq(body, n - d, n - 1))
        /\ (n - (IF d = 0 THEN 1 ELSE d + 2) > 1) => body[1] # "0"

\* the integer N is v * 10^k rounded to an integer, either way on a tie
RoundedScaled(N, v, k) ==
    IF v.exp + k >= 0 THEN N = DigitsNat(v.coef) * Pow10(v.exp + k)
    ELSE LET q == Pow10(0 - (v.exp + k))
             c == DigitsNat(v.coef)
         IN  2 * (N * q - c) <= q /\ 2 * (c - N * q) <= q

\* C16: for a number v and an int d >= 0 the result is v x 100 written with
\* exactly d fractional digits, "," for the decimal point, no thousands
\* separator, then "%", with the sign of v; for every argument that cannot
\* be formatted the result is exactly "0,00%"; the call never raises.
FormatoPorcentajeTotal ==
    PercentDone =>
        /\ ret.kind = "str"
        /\ (IsNumber(arg.valor) /\ PlainDecimales) =>
             /\ PercentShape(ret.text, arg.decimales.n)
             /\ RoundedScaled(DigitsNat(OnlyDigits(ret.text)), AsFloat(arg.valor),
                              arg.decimales.n + 2)
             /\ (Head(ret.text) = "-") <=> arg.valor.neg
        /\ (arg.valor.kind \in {"None", "str", "object"}
              \/ arg.decimales.kind \in {"None", "float", "bool"}
              \/ (arg.decimales.kind = "int" /\ arg.decimales.neg)) =>
             Str(ret.text) = "0,00%"

\* 0.1567 with three decimals has been written 15,670%
FormatoPorcentajeWitness ==
    /\ PercentDone
    /\ arg.valor = MkFloat(FALSE, <<1, 5, 6, 7>>, -4)
    /\ arg.decimales = [kind |-> "int", neg |-> FALSE, n |-> 3]
    /\ Str(ret.text) = "15,670%"

\* what the docstring shows, a long integer part, and a text with three
\* decimals asked for
FormatoPorcentajeExamples ==
    PercentDone =>
        /\ (arg.valor = MkFloat(FALSE, <<1, 5>>, -2)
              /\ arg.decimales = [kind |-> "int", neg |-> FALSE, n |-> 2]) =>
               Str(ret.text) = "15,00%"
        /\ (arg.valor = MkFloat(FALSE, <<1, 2, 3, 4, 5, 6, 7, 8>>, -3)
              /\ arg.decimales = [kind |-> "int", neg |-> FALSE, n |-> 2]) =>
               Str(ret.text) = "1234567,80%"
        /\ (arg.valor = [kind |-> "str", text |-> <<"a">>]
              /\ arg.decimales = [kind |-> "int", neg |-> FALSE, n |-> 3]) =>
               Str(ret.text) = "0,00%"

(***************************************************************************)
(* Further properties of safe_parse_date                                   *)
(***************************************************************************)
\* the result is one the call can give under the locale loc
ResultUnder(loc) ==
    \E dt \in PdOutcomes(DateText(arg.s)) : ret = safe_parse_date(arg.s, loc, dt)

\* C17 (pure, locale-independent): the result of a call depends on its
\* argument only, not on the locale of the host, and the Spanish month
\* names with a year (Diciembre 2024, Dic 2024) are recognised in every
\* environment.
ParseDateAnyLocale ==
    DateDone =>
        /\ \A loc \in Locales : ResultUnder(loc)
        /\ arg.s \in {[kind |-> "str", text |-> <<"D", "i", "c", "i", "e", "m", "b", "r", "e", " ", "2", "0", "2", "4">>],
                      [kind |-> "str", text |-> <<"D", "i", "c", " ", "2", "0", "2", "4">>]}
              => ret = Date(2024, 12, 1)

HasLetter(t) == \E i \in 1..Len(t) : Lower(t[i]) \in {LowerChars[k] : k \in 1..26}

\* What the code guarantees: the locale matters only to a text with a month
\* name.  A text without letters, and any argument that is not a text, has
\* the same results under every locale; the Spanish names are recognised
\* under the Spanish locale, and under the C locale, whose names are the
\* English ones, they reach the last attempt.
ParseDateLocaleAsCoded ==
    DateDone =>
        /\ (arg.s.kind # "str" \/ ~HasLetter(arg.s.text)) => \A loc \in Locales : ResultUnder(loc)
        /\ arg.s \in {[kind |-> "str", text |-> <<"D", "i", "c", "i", "e", "m", "b", "r", "e", " ", "2", "0", "2", "4">>],
                      [kind |-> "str", text |-> <<"D", "i", "c", " ", "2", "0", "2", "4">>]}
              => IF locale = "es_AR"
                 THEN ret = Date(2024, 12, 1) /\ note.stage = "fmts"
                 ELSE note.stage = "pandas"

(***************************************************************************)
(* formato_fecha_argentina                                                 *)
(***************************************************************************)
\* MESES_ES and MESES_ES_CORTO, indexed by month number
MESES_ES ==
    <<<<"E", "n", "e", "r", "o">>,
      <<"F", "e", "b", "r", "e", "r", "o">>,
      <<"M", "a", "r", "z", "o">>,
      <<"A", "b", "r", "i", "l">>,
      <<"M", "a", "y", "o">>,
      <<"J", "u", "n", "i", "o">>,
      <<"J", "u", "l", "i", "o">>,
      <<"A", "g", "o", "s", "t", "o">>,
      <<"S", "e", "p", "t", "i", "e", "m", "b", "r", "e">>,
      <<"O", "c", "t", "u", "b", "r", "e">>,
      <<"N", "o", "v", "i", "e", "m", "b", "r", "e">>,
      <<"D", "i", "c", "i", "e", "m", "b", "r", "e">>>>

MESES_ES_CORTO ==
    <<<<"E", "n", "e">>,
      <<"F", "e", "b">>,
      <<"M", "a", "r">>,
      <<"A", "b", "r">>,
      <<"M", "a", "y">>,
      <<"J", "u", "n">>,
      <<"J", "u", "l">>,
      <<"A", "g", "o">>,
      <<"S", "e", "p">>,
      <<"O", "c", "t">>,
      <<"N", "o", "v">>,
      <<"D", "i", "c">>>>

\* strftime %d and %m: two digits
strftime_d(n) == Pad2(n)

\* strftime %y: the year within its century, two digits
strftime_y(y) == Pad2(y % 100)

\* strftime %Y: the four digits of a year from 1000 on.  Below 1000 the C
\* library decides whether the year is padded with zeros (0999) or not
\* (999); pad is that choice.
strftime_Y(y, pad) ==
    IF y >= 1000 \/ ~pad THEN Unpadded(y)
    ELSE Repeat(<<"0">>, 4 - Len(Unpadded(y))) \o Unpadded(y)

formato_fecha_argentina(fecha, formato, pad) ==
    IF formato = "corto"
    THEN StrRet(strftime_d(fecha.d) \o <<"/">> \o strftime_d(fecha.m) \o <<"/">> \o strftime_y(fecha.y))
    ELSE IF formato = "texto"
    THEN StrRet(Unpadded(fecha.d) \o <<" ", "d", "e", " ">> \o MESES_ES[fecha.m]
                    \o <<" ", "d", "e", " ">> \o Unpadded(fecha.y))
    ELSE StrRet(strftime_d(fecha.d) \o <<"/">> \o strftime_d(fecha.m) \o <<"/">> \o strftime_Y(fecha.y, pad))

\* --- the calls checked: every month of a few years, the first and last
\* --- days of each, rendered and handed back to safe_parse_date
FechaYears == {1, 999, 1000, 1899, 1969, 2024, 2101, 9999}

FechaDays == {1, 2, 12, 13, 28, 29, 30, 31}

FechaDates ==
    {dt \in {Date(y, mo, d) : y \in FechaYears, mo \in 1..12, d \in FechaDays} :
        ValidYMD(dt.y, dt.m, dt.d)}

Formatos == {"largo", "corto", "texto", "iso"}

InitFecha ==
    /\ locale \in Locales
    /\ NoPage
    /\ pc = "call"
    /\ arg \in [fn : {"formato_fecha_argentina"}, fecha : FechaDates, formato : Formatos]
    /\ ret = NoRet
    /\ note = [kind |-> "none"]

CallFormatoFecha ==
    /\ pc = "call"
    /\ arg.fn = "formato_fecha_argentina"
    /\ \E pad \in BOOLEAN : ret' = formato_fecha_argentina(arg.fecha, arg.formato, pad)
    /\ pc' = "done"
    /\ UNCHANGED <<arg, note, locale, page>>

\* the caller hands the rendering to safe_parse_date; de and como keep the
\* date it came from and the format asked for
ParseFechaBack ==
    /\ pc = "done"
    /\ arg.fn = "formato_fecha_argentina"
    /\ arg' = [fn |-> "safe_parse_date", s |-> ret, de |-> arg.fecha, como |-> arg.formato]
    /\ ret' = NoRet
    /\ pc' = "call"
    /\ UNCHANGED <<note, locale, page>>

NextFecha == CallFormatoFecha \/ ParseFechaBack \/ CallSafeParseDate

SpecFecha == InitFecha /\ [][NextFecha]_vars

\* --- properties of formato_fecha_argentina -------------------------------
FechaDone == pc = "done" /\ arg.fn = "formato_fecha_argentina"

ReadBack == pc = "done" /\ arg.fn = "safe_parse_date"

\* C18 (round trip): the "largo" rendering of every valid date is read back
\* by safe_parse_date as the same year, month and day.
FechaRoundTrip ==
    (ReadBack /\ arg.como = "largo") => ret = arg.de

\* What the code guarantees: the rendering is DD/MM/YYYY with two, two and
\* four digits from year 1000 on, and then it is read back as the same date
\* by the format %d/%m/%Y under every locale; below year 1000 it is read
\* back only where the C library pads the year to four digits, and is
\* otherwise left to the last attempt, which never gives the date back.
FechaRoundTripAsCoded ==
    /\ (FechaDone /\ arg.formato \notin {"corto", "texto"}) =>
           /\ ret.kind = "str"
           /\ SubSeq(ret.text, 1, 6) = Pad2(arg.fecha.d) \o <<"/">> \o Pad2(arg.fecha.m) \o <<"/">>
           /\ AllDigits(SubSeq(ret.text, 7, Len(ret.text)))
           /\ Num(SubSeq(ret.text, 7, Len(ret.text))) = arg.fecha.y
           /\ arg.fecha.y >= 1000 => Len(ret.text) = 10
    /\ (ReadBack /\ arg.como \notin {"corto", "texto"}) =>
           IF Len(arg.s.text) = 10
           THEN ret = arg.de /\ note.stage = "fmts" /\ note.fmt = 2
           ELSE arg.de.y < 1000 /\ note.stage = "pandas" /\ ret # arg.de
    /\ (FechaDone /\ arg.formato = "texto" /\ arg.fecha = Date(2024, 12, 31)) =>
           Str(ret.text) = "31 de Diciembre de 2024"
    /\ (FechaDone /\ arg.formato = "corto" /\ arg.fecha = Date(2024, 12, 31)) =>
           Str(ret.text) = "31/12/24"

(***************************************************************************)
(* numero_a_letras across the scales                                       *)
(***************************************************************************)
\* a whole amount of pesos that is not negative
WholeAmount(x) == ~x.neg /\ \A i \in 1..Len(FracDigits(x)) : FracDigits(x)[i] = 0

\* whole amounts every phrase is compared with: 0 to 30 and the amounts
\* with 0, 1 or 2 in each group of three digits, up to 2 002 002 002
CompareEnteros ==
    {NatDigits(n) : n \in 0..30}
    \cup {StripLeadingZeros(NatDigits(h) \o Group3(a) \o Group3(b) \o Group3(c)) :
            h \in 0..2, a \in 0..2, b \in 0..2, c \in 0..2}

ComparePhrases ==
    [e \in CompareEnteros |-> numero_a_letras(MkFloat(FALSE, e \o <<0, 0, 0>>, -3), TRUE)]

\* C19 (injective on whole amounts): two different non-negative whole
\* amounts never give the same phrase, whatever their scales.
NumeroALetrasInjective ==
    (WordsDone /\ WholeAmount(arg.numero)) =>
        \A e \in CompareEnteros :
            e # EnteroDigits(arg.numero) => ComparePhrases[e] # ret

\* a is a thousand millions or more with no millions and no thousands, and
\* b is the amount whose thousands are the thousands of millions of a
SameWords(a, b) ==
    LET L == Len(a)
    IN  /\ L >= 10
        /\ SubSeq(a, L - 8, L - 3) = <<0, 0, 0, 0, 0, 0>>
        /\ b = SubSeq(a, 1, L - 9) \o SubSeq(a, L - 2, L)

\* What the code guarantees: two different whole amounts give the same
\* phrase exactly when one is h thousand millions plus r and the other is h
\* thousand plus r, with r below a thousand (UN MIL for both 1 000 000 000
\* and 1 000); below a thousand millions the phrases are all different.
\* (An amount the call raises for gives no phrase.)
NumeroALetrasInjectiveAsCoded ==
    (WordsDone /\ WholeAmount(arg.numero) /\ ret.kind = "str") =>
        LET ent == EnteroDigits(arg.numero)
        IN  \A e \in CompareEnteros :
                e # ent => (ComparePhrases[e] = ret <=> (SameWords(e, ent) \/ SameWords(ent, e)))

\* the tokens w are words separated by single spaces: there is a word, no
\* space comes first or last, and no two spaces are adjacent
SingleSpaced(w) ==
    /\ w # <<>>
    /\ w[1] # " "
    /\ w[Len(w)] # " "
    /\ \A i \in 1..(Len(w) - 1) : ~(w[i] = " " /\ w[i + 1] = " ")

\* C20 (spacing of the words): for every non-zero value the words between
\* "PESOS " and " CON " are there and are separated by exactly one space,
\* with no leading, trailing or doubled space, also below one peso and when
\* the lower groups are zero.
NumeroALetrasSpacing ==
    (WordsDone /\ ~IsZero(arg.numero) /\ ret.kind = "str") =>
        SingleSpaced(WordsField(ret.text))

\* What the code guarantees: the words are missing, and "PESOS" is followed
\* by two spaces, exactly when int(numero) is 0 (a value below one peso) or
\* -10 (unidades[-10] is ''); for every other value that gives a phrase the
\* words are single-spaced, whatever groups are zero.
NumeroALetrasSpacingAsCoded ==
    (WordsDone /\ ~IsZero(arg.numero) /\ ret.kind = "str") =>
        LET w   == WordsField(ret.text)
            ent == EnteroDigits(arg.numero)
        IN  /\ w = <<>> <=> (ent = <<0>> \/ (arg.numero.neg /\ ent = <<1, 0>>))
            /\ w # <<>> => SingleSpaced(w)
            /\ w = <<>> => (ret.text[2] = " " /\ ret.text[3] = " " /\ ret.text[4] = "CON")

(***************************************************************************)
(* The dataset editor of apps/administracion.py                            *)
(*                                                                         *)
(* Streamlit runs the whole script on every interaction.  A step of the    *)
(* model is one click: the run that handles it and, when the handler ends  *)
(* with st.rerun(), the run that follows, up to the page being displayed   *)
(* again.  Between two clicks the keys of the selected dataset are always  *)
(* in st.session_state (lines 191-199 put them there in every run).        *)
(*                                                                         *)
(* A table is modelled by one of its columns (Desde for "Tasa Activa"): a  *)
(* row is the cell of that column.  A cell is a text (kind "str"), the NaN *)
(* read_csv gives for an empty field (kind "nan"), or, once                *)
(* pd.to_datetime has converted the column, a Timestamp or NaT.            *)
(***************************************************************************)
\* the keys of datasets: "JUS" stands for the four datasets that are saved
\* as they are, "Tasa Activa" is the one sorted by date when saved
Datasets == {"JUS", "Tasa Activa"}

Absent == [kind |-> "absent"]

NaN == [kind |-> "nan"]

\* a DataFrame: its rows, and whether the column has the dtype datetime64
DataFrame(rows, datetime) == [kind |-> "df", rows |-> rows, datetime |-> datetime]

\* pd.read_csv(archivo): an empty field is NaN, any other one the text
read_csv(lines) ==
    DataFrame([i \in 1..Len(lines) |-> IF lines[i] = <<>> THEN NaN ELSE StrRet(lines[i])], FALSE)

IsoText(y, m, d) ==
    Repeat(<<"0">>, 4 - Len(Unpadded(y))) \o Unpadded(y) \o <<"-">> \o Pad2(m) \o <<"-">> \o Pad2(d)

\* the field DataFrame.to_csv writes for a cell: NaN and NaT are empty, a
\* Timestamp of a datetime64 column is its date
CsvField(v) ==
    CASE v.kind = "str"       -> v.text
      [] v.kind = "Timestamp" -> IsoText(v.y, v.m, v.d)
      [] OTHER                -> <<>>

to_csv(rows) == [i \in 1..Len(rows) |-> CsvField(rows[i])]

\* str(valor) if pd.notna(valor) else "": the text shown for a cell and
\* offered in the text input of the row in edit mode
CellText(v) ==
    CASE v.kind = "str"       -> v.text
      [] v.kind = "Timestamp" -> IsoText(v.y, v.m, v.d)
                                    \o <<" ", "0", "0", ":", "0", "0", ":", "0", "0">>
      [] OTHER                -> <<>>

\* the date of a text YYYY-MM-DD, NaT for any other text
IsoDate(t) ==
    LET p == Split(t, "-")
    IN  IF Shape(p, 4, 2, 2) /\ ValidYMD(Num(p[1]), Num(p[2]), Num(p[3]))
        THEN Timestamp(Num(p[1]), Num(p[2]), Num(p[3]))
        ELSE NaT

\* pd.to_datetime(..., dayfirst=True, format='mixed') on one cell: the
\* outcomes, a raise included (errors is left to its default, "raise").
\* An empty text and NaN are NaT; a text without a digit is not a date.
to_datetime(v) ==
    CASE v.kind \in {"Timestamp", "NaT"} -> {v}
      [] v.kind = "nan" -> {NaT}
      [] v.kind = "str" ->
            IF v.text = <<>> THEN {NaT}
            ELSE IF IsoDate(v.text) # NaT THEN {IsoDate(v.text)}
            ELSE IF \A i \in 1..Len(v.text) : ~IsDigit(v.text[i]) THEN {Raise("ValueError")}
            ELSE {IF dt.kind = "Timestamp" THEN dt ELSE Raise("ValueError") :
                    dt \in PdOutcomes(v.text)}

\* the conversions of a whole column: the sequences of outcomes, cell by cell
RECURSIVE ColumnToDatetime(_)
ColumnToDatetime(rows) ==
    IF rows = <<>> THEN {<<>>}
    ELSE {<<h>> \o t : h \in to_datetime(Head(rows)), t \in ColumnToDatetime(Tail(rows))}

\* a comes strictly before b in descending order of date, NaT last
SortsBefore(a, b) ==
    /\ a.kind = "Timestamp"
    /\ \/ b.kind = "NaT"
       \/ /\ b.kind = "Timestamp"
          /\ a.y * 10000 + a.m * 100 + a.d > b.y * 10000 + b.m * 100 + b.d

\* df.sort_values('Desde', ascending=False): the orders it can give (the
\* order of equal dates is not fixed by the default sorting algorithm)
sort_values(rows) ==
    LET n == Len(rows)
    IN  {q \in {[i \in 1..n |-> rows[f[i]]] : f \in Permutations(1..n)} :
            \A i \in 1..n : \A j \in (i + 1)..n : ~SortsBefore(q[j], q[i])}

\* I/O failure of to_csv(archivo)
WriteOutcomes == {"written", "OSError"}

\* rows shown at first and added by "Cargar 10 más"
PageSize == 10

Min(a, b) == IF a < b THEN a ELSE b

\* lines 190-199: the keys of the selected dataset are created when missing
Initialise(ss, ds, files) ==
    [df_edit      |-> [ss.df_edit EXCEPT ![ds] = IF @ = Absent THEN read_csv(files[ds]) ELSE @],
     editing_row  |-> [ss.editing_row EXCEPT ![ds] = IF @ = Absent THEN None ELSE @],
     rows_visible |-> [ss.rows_visible EXCEPT ![ds] = IF @ = Absent THEN IntRet(PageSize) ELSE @]]

\* del st.session_state[...] of the two keys of the edit session
Discard(ss, ds) ==
    [ss EXCEPT !.df_edit[ds] = Absent, !.editing_row[ds] = Absent]

EmptySession ==
    [df_edit      |-> [d \in Datasets |-> Absent],
     editing_row  |-> [d \in Datasets |-> Absent],
     rows_visible |-> [d \in Datasets |-> Absent]]

df_trabajo == session_state.df_edit[dataset_sel]

editing_row == session_state.editing_row[dataset_sel]

rows_visible == session_state.rows_visible[dataset_sel].v

total_filas == Len(df_trabajo.rows)

filas_a_mostrar == Min(rows_visible, total_filas)

\* drop(idx).reset_index(drop=True)
Drop(rows, idx) == SubSeq(rows, 1, idx) \o SubSeq(rows, idx + 2, Len(rows))

\* df_trabajo.at[idx, col] = val: the tables it can leave, or a raise.  In
\* a column of texts the cell becomes the text.  In a datetime64 column the
\* pandas version decides: the text is parsed and stored as a date, or the
\* column is turned into a column of objects and the text stored, or the
\* assignment raises TypeError.
at_set(df, idx, val) ==
    LET written == DataFrame([df.rows EXCEPT ![idx + 1] = StrRet(val)], FALSE)
    IN  IF ~df.datetime THEN {written}
        ELSE {written, Raise("TypeError")}
             \cup {DataFrame([df.rows EXCEPT ![idx + 1] = ts], TRUE) :
                     ts \in {o \in to_datetime(StrRet(val)) : o.kind \in {"Timestamp", "NaT"}}}

\* --- the page: the files, the clicks and what is typed -------------------
\* eleven rows, one more than a page, and a file as a save left it
Files ==
    [d \in Datasets |->
        IF d = "JUS"
        THEN [i \in 1..(PageSize + 1) |-> Pad2(i) \o <<"/", "0", "1", "/", "2", "0", "2", "4">>]
        ELSE <<<<"2", "0", "2", "4", "-", "0", "2", "-", "0", "1">>, <<"2", "0", "2", "4", "-", "0", "1", "-", "0", "1">>>>]

\* texts typed in the input of the row in edit mode
TypedTexts == {<<"x">>, <<"0", "5", "/", "0", "3", "/", "2", "0", "2", "4">>}

\* clicks of one behaviour
MaxClicks == 4

\* arg is the click being handled, ret what its run ended with ("rerun",
\* "render" when the script ran to its end, "error" when an except clause
\* showed an error).  note counts the clicks and keeps, for each dataset,
\* the present position of the row that was put in edit mode (-1 when none
\* is, or when that row has been deleted); the code reads neither.
Click(name, idx, val) == [fn |-> "administracion", click |-> name, idx |-> idx, val |-> val]

Ended(how) == [kind |-> how]

ErrorShown(e) == [kind |-> "error", exc |-> e]

CanClick == pc = "page" /\ note.clicks < MaxClicks

Counted(target) ==
    note' = [note EXCEPT !.clicks = @ + 1, !.target[dataset_sel] = target]

InitPage ==
    /\ locale = "C"
    /\ pc = "page"
    /\ arg = Click("open", -1, <<>>)
    /\ ret = Ended("render")
    /\ note = [kind |-> "edit", clicks |-> 0, target |-> [d \in Datasets |-> -1]]
    /\ csv = Files
    /\ dataset_sel = "JUS"
    /\ session_state = Initialise(EmptySession, "JUS", Files)

\* st.selectbox("Seleccionar dataset", ...): another dataset is chosen
SelectDataset ==
    /\ CanClick
    /\ \E d \in Datasets \ {dataset_sel} :
        /\ dataset_sel' = d
        /\ session_state' = Initialise(session_state, d, csv)
        /\ arg' = Click("select", -1, <<>>)
    /\ ret' = Ended("render")
    /\ note' = [note EXCEPT !.clicks = @ + 1]
    /\ UNCHANGED <<pc, locale, csv>>

\* "Agregar": an empty row on top, put in edit mode
Agregar ==
    /\ CanClick
    /\ session_state' =
          [session_state EXCEPT
              !.df_edit[dataset_sel] = DataFrame(<<StrRet(<<>>)>> \o df_trabajo.rows, FALSE),
              !.editing_row[dataset_sel] = IntRet(0)]
    /\ arg' = Click("agregar", -1, <<>>)
    /\ ret' = Ended("rerun")
    /\ Counted(0)
    /\ UNCHANGED <<pc, locale, csv, dataset_sel>>

\* the check button of the row in edit mode, with val in its text input
SaveRow ==
    /\ CanClick
    /\ \E idx \in 0..(filas_a_mostrar - 1) :
        /\ editing_row = IntRet(idx)
        /\ \E val \in TypedTexts \cup {CellText(df_trabajo.rows[idx + 1])} :
            /\ arg' = Click("save", idx, val)
            /\ \E out \in at_set(df_trabajo, idx, val) :
                IF out.kind = "raise"
                THEN /\ ret' = ErrorShown(out.exc)
                     /\ note' = [note EXCEPT !.clicks = @ + 1]
                     /\ UNCHANGED session_state
                ELSE /\ session_state' =
                            [session_state EXCEPT !.df_edit[dataset_sel] = out,
                                                  !.editing_row[dataset_sel] = None]
                     /\ ret' = Ended("rerun")
                     /\ Counted(-1)
    /\ UNCHANGED <<pc, locale, csv, dataset_sel>>

\* the cross button of the row in edit mode
CancelRow ==
    /\ CanClick
    /\ \E idx \in 0..(filas_a_mostrar - 1) :
        /\ editing_row = IntRet(idx)
        /\ arg' = Click("cancel", idx, <<>>)
    /\ session_state' = [session_state EXCEPT !.editing_row[dataset_sel] = None]
    /\ ret' = Ended("rerun")
    /\ Counted(-1)
    /\ UNCHANGED <<pc, locale, csv, dataset_sel>>

\* the pencil button of a row that is not in edit mode
EditRow ==
    /\ CanClick
    /\ \E idx \in 0..(filas_a_mostrar - 1) :
        /\ editing_row # IntRet(idx)
        /\ session_state' = [session_state EXCEPT !.editing_row[dataset_sel] = IntRet(idx)]
        /\ arg' = Click("edit", idx, <<>>)
        /\ Counted(idx)
    /\ ret' = Ended("rerun")
    /\ UNCHANGED <<pc, locale, csv, dataset_sel>>

\* the bin button of a row that is not in edit mode
DeleteRow ==
    /\ CanClick
    /\ \E idx \in 0..(filas_a_mostrar - 1) :
        /\ editing_row # IntRet(idx)
        /\ session_state' =
              [session_state EXCEPT
                  !.df_edit[dataset_sel] = DataFrame(Drop(df_trabajo.rows, idx), df_trabajo.datetime)]
        /\ arg' = Click("delete", idx, <<>>)
        /\ LET t == note.target[dataset_sel]
           IN  Counted(IF idx = t THEN -1 ELSE IF idx < t THEN t - 1 ELSE t)
    /\ ret' = Ended("rerun")
    /\ UNCHANGED <<pc, locale, csv, dataset_sel>>

\* "Cargar 10 más"
LoadMore ==
    /\ CanClick
    /\ total_filas > PageSize
    /\ rows_visible < total_filas
    /\ session_state' =
          [session_state EXCEPT
              !.rows_visible[dataset_sel] = IntRet(Min(rows_visible + PageSize, total_filas))]
    /\ arg' = Click("load_more", -1, <<>>)
    /\ ret' = Ended("rerun")
    /\ note' = [note EXCEPT !.clicks = @ + 1]
    /\ UNCHANGED <<pc, locale, csv, dataset_sel>>

\* "Mostrar Todo"
ShowAll ==
    /\ CanClick
    /\ total_filas > PageSize
    /\ rows_visible < total_filas
    /\ session_state' = [session_state EXCEPT !.rows_visible[dataset_sel] = IntRet(total_filas)]
    /\ arg' = Click("show_all", -1, <<>>)
    /\ ret' = Ended("rerun")
    /\ note' = [note EXCEPT !.clicks = @ + 1]
    /\ UNCHANGED <<pc, locale, csv, dataset_sel>>

\* "Mostrar menos"
Collapse ==
    /\ CanClick
    /\ total_filas > PageSize
    /\ rows_visible > PageSize
    /\ session_state' = [session_state EXCEPT !.rows_visible[dataset_sel] = IntRet(PageSize)]
    /\ arg' = Click("collapse", -1, <<>>)
    /\ ret' = Ended("rerun")
    /\ note' = [note EXCEPT !.clicks = @ + 1]
    /\ UNCHANGED <<pc, locale, csv, dataset_sel>>

\* "Guardar Cambios".  For "Tasa Activa" the column Desde of the table in
\* st.session_state is replaced by its dates (the assignment of line 347
\* acts on that very object) and a sorted copy is written; when
\* pd.to_datetime raises nothing has been assigned.  After to_csv the two
\* keys are deleted and the next run reads the file again; when to_csv
\* raises, the except clause shows the error and the keys stay.
GuardarCambios ==
    /\ CanClick
    /\ arg' = Click("guardar", -1, <<>>)
    /\ LET tasa == dataset_sel = "Tasa Activa"
       IN  \E conv \in (IF tasa THEN ColumnToDatetime(df_trabajo.rows) ELSE {df_trabajo.rows}) :
            IF \E i \in 1..Len(conv) : conv[i].kind = "raise"
            THEN /\ ret' = ErrorShown("ValueError")
                 /\ note' = [note EXCEPT !.clicks = @ + 1]
                 /\ UNCHANGED <<session_state, csv>>
            ELSE LET assigned ==
                         IF tasa
                         THEN [session_state EXCEPT !.df_edit[dataset_sel] = DataFrame(conv, TRUE)]
                         ELSE session_state
                 IN  \E sorted \in (IF tasa THEN sort_values(conv) ELSE {conv}),
                        w \in WriteOutcomes :
                        IF w = "written"
                        THEN /\ csv' = [csv EXCEPT ![dataset_sel] = to_csv(sorted)]
                             /\ session_state' =
                                   Initialise(Discard(assigned, dataset_sel), dataset_sel, csv')
                             /\ ret' = Ended("rerun")
                             /\ Counted(-1)
                        ELSE /\ csv' = csv
                             /\ session_state' = assigned
                             /\ ret' = ErrorShown(w)
                             /\ note' = [note EXCEPT !.clicks = @ + 1]
    /\ UNCHANGED <<pc, locale, dataset_sel>>

\* "Recargar Original"
RecargarOriginal ==
    /\ CanClick
    /\ session_state' = Initialise(Discard(session_state, dataset_sel), dataset_sel, csv)
    /\ arg' = Click("recargar", -1, <<>>)
    /\ ret' = Ended("rerun")
    /\ Counted(-1)
    /\ UNCHANGED <<pc, locale, csv, dataset_sel>>

NextPage ==
    \/ SelectDataset \/ Agregar \/ SaveRow \/ CancelRow \/ EditRow \/ DeleteRow
    \/ LoadMore \/ ShowAll \/ Collapse \/ GuardarCambios \/ RecargarOriginal

SpecPage == InitPage /\ [][NextPage]_vars

\* --- properties of the dataset editor -------------------------------------
\* the edit marker of dataset d, when set, is the position of the row that
\* was put in edit mode
Designates(d) ==
    session_state.editing_row[d].kind = "int" =>
        session_state.editing_row[d].v = note.target[d]

\* the step is a click on the check button that wrote into a column of texts
RowSaved ==
    /\ note'.clicks # note.clicks
    /\ arg'.click = "save"
    /\ ret'.kind = "rerun"
    /\ ~df_trabajo.datetime

\* the step is a click on the bin of row idx of the selected dataset
RowDeleted(idx) ==
    /\ note'.clicks # note.clicks
    /\ arg'.click = "delete"
    /\ arg'.idx = idx

\* C21 (the row saved is the row edited): whatever was clicked since a row
\* was put in edit mode, the edit marker designates that row while it is
\* set, and the check button writes the typed text into that row and
\* leaves every other row as it was.
SaveWritesEditedRow ==
    [][/\ \A d \in Datasets : Designates(d)'
       /\ RowSaved =>
            /\ note.target[dataset_sel] >= 0
            /\ session_state'.df_edit[dataset_sel].rows =
                  [df_trabajo.rows EXCEPT ![note.target[dataset_sel] + 1] = StrRet(arg'.val)]]_vars

\* What the code guarantees: the check button writes the typed text at the
\* stored index and nowhere else, and the stored index follows the row put
\* in edit mode through every click except the bin of a row above it: the
\* rows then move up by one and the index does not.
SaveWritesStoredIndex ==
    [][/\ RowSaved =>
            /\ editing_row.kind = "int"
            /\ session_state'.df_edit[dataset_sel].rows =
                  [df_trabajo.rows EXCEPT ![editing_row.v + 1] = StrRet(arg'.val)]
       /\ \A d \in Datasets :
            (Designates(d) /\ ~Designates(d)') =>
                /\ d = dataset_sel
                /\ \E idx \in 0..(note.target[d] - 1) : RowDeleted(idx)]_vars

\* the step is a click on "Guardar Cambios" or on "Recargar Original"
SessionClick ==
    /\ note'.clicks # note.clicks
    /\ arg'.click \in {"guardar", "recargar"}

\* the edit session of the selected dataset is a fresh one: the table is
\* the rows of the file and no row is in edit mode
FreshSession ==
    /\ session_state.df_edit[dataset_sel] = read_csv(csv[dataset_sel])
    /\ session_state.editing_row[dataset_sel] = None

\* the table and the edit marker of dataset d are left as they were
SessionKept(d) ==
    /\ session_state'.df_edit[d] = session_state.df_edit[d]
    /\ session_state'.editing_row[d] = session_state.editing_row[d]

\* C22 (save and reload end the edit session): after "Guardar Cambios"
\* without error and after "Recargar Original" the table of the selected
\* dataset is the rows read from its file and no row is in edit mode; when
\* saving fails the table and the edit marker are kept; the tables and the
\* edit markers of the other datasets are not touched.
SaveOrReloadEndsSession ==
    [][SessionClick =>
          /\ ret'.kind = "rerun" => FreshSession'
          /\ ret'.kind = "error" => SessionKept(dataset_sel)
          /\ \A d \in Datasets \ {dataset_sel} : SessionKept(d)]_vars

\* What the code guarantees: the same, except that a failed save of "Tasa
\* Activa" keeps the table only when pd.to_datetime is what failed.  When
\* to_csv fails, the column Desde of the table has already been replaced by
\* its dates (NaT for an empty cell); the rows, their order and the edit
\* marker are kept.
SaveOrReloadAsCoded ==
    [][SessionClick =>
          /\ ret'.kind = "rerun" => FreshSession'
          /\ ret'.kind = "error" =>
                /\ session_state'.editing_row = session_state.editing_row
                /\ csv' = csv
                /\ IF dataset_sel = "Tasa Activa" /\ ret'.exc = "OSError"
                   THEN /\ session_state'.df_edit[dataset_sel].datetime
                        /\ session_state'.df_edit[dataset_sel].rows \in ColumnToDatetime(df_trabajo.rows)
                   ELSE SessionKept(dataset_sel)
          /\ \A d \in Datasets \ {dataset_sel} : SessionKept(d)]_vars

====
